---------------------------- MODULE Spec2Model ----------------------------
(***************************************************************************)
(* Model of the simulation core of the "evolution" program: the Landscape  *)
(* (world/src/landscape.rs), the Animal (world/src/animal/species/         *)
(* simple.rs) and the Plant (world/src/plant/simple.rs).                   *)
(*                                                                         *)
(* Energy is `f32` in the source.  The model measures energy in integer    *)
(* units and writes a rate as a pair <<numerator, denominator>>; the       *)
(* seeded values below are chosen so that every product rate * energy the  *)
(* runs compute is a whole number, so the integer model and the float      *)
(* arithmetic agree.                                                       *)
(*                                                                         *)
(* A tick is modelled step by step: the shuffle, then for every cell of    *)
(* the sweep the plant arm and the animal arm of the loop body, then       *)
(* final_processing.  A panic of the program is the control state "panic". *)
(*                                                                         *)
(* Specifications: Spec is the Landscape driven through its ticks,         *)
(* BrainSpec is Brain::choose_action over every score vector and draw,     *)
(* MainSpec is main's loop sending snapshots to the display thread, and    *)
(* ReproSpec is Spec with the body of Brain::clone_with_mutation, which    *)
(* the source leaves as todo!(), filled in as a function that returns.     *)
(***************************************************************************)
EXTENDS Integers, Sequences, FiniteSets, TLC

VARIABLES
    animals,        \* Landscape.animals: Vec<Box<dyn AnimalAlive>>, index = pointer
    plants,         \* Landscape.plants
    dead_animals,   \* Landscape.dead_animals (pointers = indices into animals)
    landscape,      \* Landscape.landscape: cell -> [plant, animal], 0 = None
    view_state,     \* Landscape.view_state
    shuffle_width,  \* Landscape.shuffle_width
    shuffle_height, \* Landscape.shuffle_height
    cfg,            \* the parameters of Landscape::new, and MAX_STEPS of the run
    stats,          \* the statistics fields of Landscape
    script,         \* the add_plant / add_animal calls main still has to make
    pc,             \* "idle", "plant", "animal", "final", "panic"
    cursor,         \* position of the sweep in the shuffled traversal, 1..width*height
    ticks,          \* ticks completed
    acted,          \* per animal: calls of Animal::action in the current tick
    tended,         \* per plant: calls of Plant::action in the current tick
    last,           \* what the last step did
    brain,          \* Brain::choose_action: its scores, its draw and what it returned
    channel,        \* the mpsc channel of main: the snapshots sent and not yet received
    receiver,       \* the receiving end, owned by the display thread: "alive", "dropped"
    map,            \* Window.map: the snapshot the window shows
    main_pc,        \* main with a display: "tick", "send", "join", "done", "panic"
    steps           \* iterations of main's loop over MAX_STEPS that have sent

\* The state of the Landscape and of the sweep.
world == <<animals, plants, dead_animals, landscape, view_state, shuffle_width,
           shuffle_height, cfg, stats, script, pc, cursor, ticks, acted,
           tended, last>>

\* The state of main's channel to the display thread.
display == <<channel, receiver, map, main_pc, steps>>

vars == <<world, brain, display>>

\* Number of ticks main runs (MAX_STEPS in the program, bounded here).
MaxTicks == 2

-----------------------------------------------------------------------------
(* Helpers of the model *)

Min(a, b) == IF a < b THEN a ELSE b

Max(a, b) == IF a > b THEN a ELSE b

\* All orders of 0..n-1, the possible results of a shuffle.
\* A shuffle as it would be if it drew every position independently.
Perms_with_repeats(n) == [1..n -> 0..(n - 1)]

Perms(n) ==
    {p \in [1..n -> 0..(n - 1)] : \A i, j \in 1..n : i # j => p[i] # p[j]}

\* (rate * e as f64) as Energy
RateMul(rate, e) == (rate[1] * e) \div rate[2]

\* AnimalInputSignal as Landscape::percept creates it, all counts 0.
NoInputs ==
    [plant_front |-> 0, plant_left |-> 0, plant_right |-> 0, plant_proximity |-> 0,
     herbivore_front |-> 0, herbivore_left |-> 0, herbivore_right |-> 0,
     herbivore_proximity |-> 0,
     carnivore_front |-> 0, carnivore_left |-> 0, carnivore_right |-> 0,
     carnivore_proximity |-> 0]

NoLast ==
    [op |-> "none", actor |-> 0, x |-> 0, y |-> 0, tx |-> 0, ty |-> 0,
     ok |-> FALSE, gain |-> 0, res |-> "none", inputs |-> NoInputs]

-----------------------------------------------------------------------------
(* Landscape::clip *)

\* clip as it would be if a negative coordinate were cut off at the edge.
clip_no_wrap(coord, max_size) ==
    IF coord < 0 THEN 0
    ELSE IF coord > max_size - 1 THEN max_size - 1
    ELSE coord

clip(coord, max_size) ==
    IF coord < 0 THEN max_size + coord
    ELSE IF coord > max_size - 1 THEN coord % max_size
    ELSE coord

-----------------------------------------------------------------------------
(* Plant *)

PlantNew(energy, max_energy, eaten_energy, reproduce_energy_rate, no_repro) ==
    [energy |-> energy, max_energy |-> max_energy, eaten_energy |-> eaten_energy,
     reproduce_energy_rate |-> reproduce_energy_rate, no_repro |-> no_repro]

PlantIsEaten(p) == p.energy <= 0

\* Plant::action
PlantAction(p) ==
    IF ~p.no_repro /\ p.energy > RateMul(p.reproduce_energy_rate, p.max_energy)
    THEN "Reproduce"
    ELSE IF p.energy < p.max_energy THEN "Grow" ELSE "None"

\* Plant::grow_action as it would be if an eaten plant did not grow.
PlantGrowAction_stays_eaten(p, energy) ==
    IF p.energy <= 0 THEN p ELSE [p EXCEPT !.energy = Min(p.energy + energy, p.max_energy)]

\* Plant::grow_action
PlantGrowAction(p, energy) ==
    [p EXCEPT !.energy = Min(p.energy + energy, p.max_energy)]

\* Plant::reproduce_action: the seed
PlantReproduceAction(p) ==
    [p EXCEPT !.energy = 0, !.no_repro = FALSE]

\* Plant::be_eaten: <<plant afterwards, energy released>>
PlantBeEaten(p) ==
    IF p.eaten_energy > p.energy
    THEN <<[p EXCEPT !.energy = p.energy - p.eaten_energy], p.eaten_energy>>
    ELSE <<[p EXCEPT !.energy = 0], p.energy>>

-----------------------------------------------------------------------------
(* Animal *)

TURN_ACTION_ENERGY_RATE == <<1, 1>>

MOVE_ACTION_ENERGY_RATE == <<1, 1>>

EAT_ACTION_ENERGY_RATE == <<1, 1>>

REPRODUCE_ACTION_ENERGY_RATE == <<1, 1>>

NONE_ACTION_ENERGY_RATE == <<1, 1>>

Directions == {"North", "South", "West", "East"}

\* Animal::new; born is the tick the animal was created in (0: seeded), which
\* the program does not store.
AnimalNew(animal_type, energy, max_energy, live_energy, eaten_energy_rate, reproduce_energy_rate, no_repro, direction, generation) ==
    [animal_type |-> animal_type, energy |-> energy, max_energy |-> max_energy,
     live_energy |-> live_energy, birth_energy |-> energy,
     eaten_energy_rate |-> eaten_energy_rate,
     reproduce_energy_rate |-> reproduce_energy_rate, no_repro |-> no_repro,
     direction |-> direction, age |-> 0, generation |-> generation,
     is_eaten |-> FALSE, processed |-> TRUE, born |-> 0]

is_dead(a) == a.energy <= 0

\* is_processed as it would be if the flag were never reported.
is_processed_never(a) == FALSE

is_processed(a) == a.processed

\* Animal::clear
\* clear as it would be if it left the flag set.
clear_keeps_flag(a) == a

clear(a) == [a EXCEPT !.processed = FALSE]

\* Animal::action as it would be if it charged the homeostasis cost itself.
action_effect_charges(a) ==
    [a EXCEPT !.age = a.age + 1, !.processed = TRUE,
              !.energy = a.energy - a.live_energy]

\* Animal::action, its effect on the animal
action_effect(a) == [a EXCEPT !.age = a.age + 1, !.processed = TRUE]

\* The test of Animal::action as it would be without the check of no_repro.
action_forces_reproduce_ignores_permission(a) ==
    a.energy > RateMul(a.reproduce_energy_rate, a.max_energy)

\* Animal::action, the forced reproduction
action_forces_reproduce(a) ==
    ~a.no_repro /\ a.energy > RateMul(a.reproduce_energy_rate, a.max_energy)

\* The rotation as it would be if the two arms of South were exchanged.
turn_direction_south_swapped(direction, turn_left) ==
    CASE direction = "North" -> IF turn_left THEN "West" ELSE "East"
      [] direction = "South" -> IF turn_left THEN "West" ELSE "East"
      [] direction = "East"  -> IF turn_left THEN "North" ELSE "South"
      [] direction = "West"  -> IF turn_left THEN "South" ELSE "North"

\* Animal::turn_action, the new direction
turn_direction(direction, turn_left) ==
    CASE direction = "North" -> IF turn_left THEN "West" ELSE "East"
      [] direction = "South" -> IF turn_left THEN "East" ELSE "West"
      [] direction = "East"  -> IF turn_left THEN "North" ELSE "South"
      [] direction = "West"  -> IF turn_left THEN "South" ELSE "North"

\* Animal::turn_action
turn_action(a, turn_left) ==
    [a EXCEPT !.energy = a.energy - RateMul(TURN_ACTION_ENERGY_RATE, a.live_energy),
              !.direction = turn_direction(a.direction, turn_left)]

\* move_action as it would be if only a realized move cost energy.
move_action_free_failure(a, realized) ==
    IF realized
    THEN [a EXCEPT !.energy = a.energy - RateMul(<<1, 1>>, a.live_energy)]
    ELSE a

\* Animal::move_action
move_action(a, realized) ==
    [a EXCEPT !.energy = a.energy - RateMul(MOVE_ACTION_ENERGY_RATE, a.live_energy)]

\* eat_action as it would be without the clamp to max_energy.
eat_action_no_clamp(a, energy) ==
    [a EXCEPT !.energy = a.energy - RateMul(<<1, 1>>, a.live_energy) + energy]

\* Animal::eat_action
eat_action(a, energy) ==
    [a EXCEPT !.energy =
        Min(a.energy - RateMul(EAT_ACTION_ENERGY_RATE, a.live_energy) + energy,
            a.max_energy)]

\* Animal::reproduce_action, the parent up to the call of clone_with_mutation
reproduce_action_parent(a) ==
    [a EXCEPT !.energy =
        a.energy - RateMul(REPRODUCE_ACTION_ENERGY_RATE, a.live_energy)
                 - a.birth_energy]

\* Brain::clone_with_mutation is todo!(): calling it panics.  A world whose
\* brain_clone is "mutates" has the body the source leaves out, which returns
\* the brain of the child.
clone_with_mutation_panics == cfg.brain_clone = "todo"

\* Animal::reproduce_action, the child it would box
reproduce_action_child(a) ==
    [animal_type |-> a.animal_type, energy |-> a.birth_energy,
     max_energy |-> a.max_energy, live_energy |-> a.live_energy,
     birth_energy |-> a.birth_energy, eaten_energy_rate |-> a.eaten_energy_rate,
     reproduce_energy_rate |-> a.reproduce_energy_rate, no_repro |-> FALSE,
     direction |-> a.direction, age |-> 0, generation |-> a.generation + 1,
     is_eaten |-> FALSE, processed |-> FALSE, born |-> ticks + 1]

\* Animal::inactivity_action
inactivity_action(a) ==
    [a EXCEPT !.energy = a.energy - RateMul(NONE_ACTION_ENERGY_RATE, a.live_energy)]

\* be_eaten as it would be if the herbivore gave its share and kept the rest.
AnimalBeEaten_keeps_rest(a) ==
    IF a.animal_type = "Herbivore"
    THEN <<[a EXCEPT !.energy = a.energy - RateMul(a.eaten_energy_rate, a.energy),
                     !.is_eaten = TRUE, !.processed = TRUE],
           RateMul(a.eaten_energy_rate, a.energy)>>
    ELSE <<a, 0>>

\* be_eaten as it would be if the eaten animal were not marked processed.
AnimalBeEaten_stays_unprocessed(a) ==
    IF a.animal_type = "Herbivore"
    THEN <<[a EXCEPT !.energy = 0, !.is_eaten = TRUE],
           RateMul(a.eaten_energy_rate, a.energy)>>
    ELSE <<a, 0>>

\* Animal::be_eaten: <<animal afterwards, energy released>>
AnimalBeEaten(a) ==
    IF a.animal_type = "Herbivore"
    THEN <<[a EXCEPT !.energy = 0, !.is_eaten = TRUE, !.processed = TRUE],
           RateMul(a.eaten_energy_rate, a.energy)>>
    ELSE <<a, 0>>

-----------------------------------------------------------------------------
(* Brain::choose_action (world/src/animal/brains/simple.rs)                 *)
(* The scores and the draw are f32 in the source; the model takes whole     *)
(* numbers, which keep the comparisons of the source.                       *)

\* Largest score of an output neuron the model draws.
MaxScore == 2

\* OUTPUT_VECTOR_SIZE
OUTPUT_VECTOR_SIZE == 4

\* The values of an output neuron: negative, zero and positive ones.
Scores == (0 - 1)..MaxScore

\* The match on outs[i]: the action of an output index (0-based).
ActionOfIndex(index) ==
    CASE index = 0 -> "TurnLeft"
      [] index = 1 -> "TurnRight"
      [] index = 2 -> "Move"
      [] index = 3 -> "Eat"
      [] OTHER     -> "None"

\* outs: the indices (0-based) of the positive scores, in order.
RECURSIVE PositiveOuts(_, _)
PositiveOuts(actions, index) ==
    IF index >= OUTPUT_VECTOR_SIZE THEN << >>
    ELSE IF actions[index + 1] > 0
         THEN <<index>> \o PositiveOuts(actions, index + 1)
         ELSE PositiveOuts(actions, index + 1)

\* total: the sum of the positive scores.
RECURSIVE TotalOf(_, _)
TotalOf(actions, outs) ==
    IF outs = << >> THEN 0
    ELSE actions[Head(outs) + 1] + TotalOf(actions, Tail(outs))

\* The loop over ranges with its running bounds x1 and x2; "panic" is the
\* panic! after the loop.
RECURSIVE choose_loop(_, _, _, _)
choose_loop(actions, outs, choose, x1) ==
    IF outs = << >> THEN "panic"
    ELSE LET x2 == x1 + actions[Head(outs) + 1]
         IN  IF choose >= x1 /\ choose < x2
             THEN ActionOfIndex(Head(outs))
             ELSE choose_loop(actions, Tail(outs), choose, x2)

\* Brain::choose_action for the scores actions and the draw choose.
choose_action(actions, choose) ==
    LET outs == PositiveOuts(actions, 0)
    IN  IF outs = << >> THEN "None" ELSE choose_loop(actions, outs, choose, 0)

\* No call of the brain has been made.
BrainIdle == [actions |-> <<0, 0, 0, 0>>, choose |-> 0, out |-> "idle"]

\* Brain::action: the scores bias + weights * inputs are any scores, the
\* draw is any value of gen_range(0.0..=total).
BrainAction ==
    /\ brain.out = "idle"
    /\ \E actions \in [1..OUTPUT_VECTOR_SIZE -> Scores] :
         \E choose \in 0..TotalOf(actions, PositiveOuts(actions, 0)) :
            brain' = [actions |-> actions, choose |-> choose,
                      out |-> choose_action(actions, choose)]
    /\ UNCHANGED <<world, display>>

-----------------------------------------------------------------------------
(* Landscape: offset tables, cells, construction *)

NORTH_FRONT == << <<-2, -2>>, <<-1, -2>>, <<0, -2>>, <<1, -2>>, <<2, -2>> >>

NORTH_LEFT == << <<-2, 0>>, <<-2, -1>> >>

NORTH_RIGHT == << <<2, 0>>, <<2, -1>> >>

NORTH_PROXIMITY == << <<-1, 0>>, <<-1, -1>>, <<0, -1>>, <<1, -1>>, <<1, 0>> >>

SOUTH_FRONT == << <<2, 2>>, <<1, 2>>, <<0, 2>>, <<-1, 2>>, <<-2, 2>> >>

SOUTH_LEFT == << <<2, 0>>, <<2, 1>> >>

SOUTH_RIGHT == << <<-2, 0>>, <<-2, 1>> >>

SOUTH_PROXIMITY == << <<1, 0>>, <<1, 1>>, <<0, 1>>, <<-1, 1>>, <<-1, 0>> >>

WEST_FRONT == << <<-2, 2>>, <<-2, 1>>, <<-2, 0>>, <<-2, -1>>, <<-2, -2>> >>

WEST_LEFT == << <<0, 2>>, <<-1, 2>> >>

WEST_RIGHT == << <<0, -2>>, <<-1, -2>> >>

WEST_PROXIMITY == << <<0, 1>>, <<-1, 1>>, <<-1, 0>>, <<-1, 1>>, <<0, 1>> >>

EAST_FRONT == << <<-2, 2>>, <<-2, 1>>, <<-2, 0>>, <<-2, -1>>, <<-2, -2>> >>

EAST_LEFT == << <<0, 2>>, <<-1, 2>> >>

EAST_RIGHT == << <<0, -2>>, <<-1, -2>> >>

EAST_PROXIMITY == << <<0, 1>>, <<-1, 1>>, <<-1, 0>>, <<-1, 1>>, <<0, 1>> >>

\* The proximity table eating_animal_action passes on for a direction.
ProximityOf(direction) ==
    CASE direction = "North" -> NORTH_PROXIMITY
      [] direction = "South" -> SOUTH_PROXIMITY
      [] direction = "West"  -> WEST_PROXIMITY
      [] direction = "East"  -> EAST_PROXIMITY

\* The four tables Landscape::percept passes on for a direction.
AreasOf(direction) ==
    CASE direction = "North" ->
            [front |-> NORTH_FRONT, left |-> NORTH_LEFT, right |-> NORTH_RIGHT,
             proximity |-> NORTH_PROXIMITY]
      [] direction = "South" ->
            [front |-> SOUTH_FRONT, left |-> SOUTH_LEFT, right |-> SOUTH_RIGHT,
             proximity |-> SOUTH_PROXIMITY]
      [] direction = "West" ->
            [front |-> WEST_FRONT, left |-> WEST_LEFT, right |-> WEST_RIGHT,
             proximity |-> WEST_PROXIMITY]
      [] direction = "East" ->
            [front |-> EAST_FRONT, left |-> EAST_LEFT, right |-> EAST_RIGHT,
             proximity |-> EAST_PROXIMITY]

AnimalTypes == {"Herbivore", "Carnivore"}

Cells(c) == (0..(c.width - 1)) \X (0..(c.height - 1))

\* Cell::default
EmptyCell == [plant |-> 0, animal |-> 0]

\* The statistics Landscape::new starts with.
InitStats ==
    [plant_count |-> 0,
     animal_count |-> [t \in AnimalTypes |-> 0],
     best_animal |-> [t \in AnimalTypes |-> 0],
     best_death_animal |-> [t \in AnimalTypes |-> 0],
     animal_reproductions |-> [t \in AnimalTypes |-> 0],
     animal_deaths |-> [t \in AnimalTypes |-> 0],
     animal_max_generation |-> [t \in AnimalTypes |-> 0]]

\* The cell the sweep (and find_empty_spot) reaches at position i of the
\* nested loops over shuffle_width and shuffle_height.
CellAt(sw, sh, i) ==
    <<sw[((i - 1) \div Len(sh)) + 1], sh[((i - 1) % Len(sh)) + 1]>>

\* The ceiling check as it would be with > in place of >=.
CeilingReached_off_by_one(agent_type, st, c) ==
    CASE agent_type = "Plant"     -> st.plant_count > c.max_plants
      [] agent_type = "Herbivore" -> st.animal_count["Herbivore"] > c.max_herbivore
      [] agent_type = "Carnivore" -> st.animal_count["Carnivore"] > c.max_carnivore

\* The ceiling check as it would be if the animals that died still counted.
CeilingReached_counts_deaths(agent_type, st, c) ==
    CASE agent_type = "Plant"     -> st.plant_count >= c.max_plants
      [] agent_type = "Herbivore" ->
             st.animal_count["Herbivore"] + st.animal_deaths["Herbivore"]
                 >= c.max_herbivore
      [] agent_type = "Carnivore" ->
             st.animal_count["Carnivore"] + st.animal_deaths["Carnivore"]
                 >= c.max_carnivore

\* The ceiling check of Landscape::find_empty_spot.
CeilingReached(agent_type, st, c) ==
    CASE agent_type = "Plant"     -> st.plant_count >= c.max_plants
      [] agent_type = "Herbivore" -> st.animal_count["Herbivore"] >= c.max_herbivore
      [] agent_type = "Carnivore" -> st.animal_count["Carnivore"] >= c.max_carnivore

\* find_empty_spot as it would be if a grid full of animals were an error
\* it returns.
find_empty_spot_always_soft(agent_type, land, st, c, sw, sh) ==
    LET n    == Len(sw) * Len(sh)
        free == {i \in 1..n :
                    IF agent_type = "Plant"
                    THEN land[CellAt(sw, sh, i)].plant = 0
                    ELSE land[CellAt(sw, sh, i)].animal = 0}
        first == CHOOSE i \in free : \A j \in free : i <= j
    IN  IF CeilingReached(agent_type, st, c) \/ free = {}
        THEN [res |-> "Err", coord |-> <<0, 0>>]
        ELSE [res |-> "Ok", coord |-> CellAt(sw, sh, first)]

\* Landscape::find_empty_spot: [res |-> "Ok" | "Err" | "Panic", coord]
find_empty_spot(agent_type, land, st, c, sw, sh) ==
    LET n    == Len(sw) * Len(sh)
        free == {i \in 1..n :
                    IF agent_type = "Plant"
                    THEN land[CellAt(sw, sh, i)].plant = 0
                    ELSE land[CellAt(sw, sh, i)].animal = 0}
        first == CHOOSE i \in free : \A j \in free : i <= j
    IN  IF CeilingReached(agent_type, st, c)
        THEN [res |-> "Err", coord |-> <<0, 0>>]
        ELSE IF free # {}
        THEN [res |-> "Ok", coord |-> CellAt(sw, sh, first)]
        ELSE IF agent_type = "Plant"
        THEN [res |-> "Err", coord |-> <<0, 0>>]
        ELSE [res |-> "Panic", coord |-> <<0, 0>>]

\* add_plant as it would be if it replaced the plant of a taken cell.
add_plant_overwrites(x0, y0, plant, land, pls, st, c) ==
    IF x0 >= c.width \/ y0 >= c.height
    THEN [res |-> "OutOfBounds", landscape |-> land, plants |-> pls, stats |-> st]
    ELSE [res |-> IF land[<<x0, y0>>].plant = 0 THEN "Ok" ELSE "TakenCell",
          landscape |-> [land EXCEPT ![<<x0, y0>>].plant = Len(pls) + 1],
          plants |-> Append(pls, plant),
          stats |-> [st EXCEPT !.plant_count = st.plant_count + 1]]

\* Landscape::add_plant: [res |-> "Ok" | "OutOfBounds" | "TakenCell", ...]
add_plant(x0, y0, plant, land, pls, st, c) ==
    IF x0 >= c.width \/ y0 >= c.height
    THEN [res |-> "OutOfBounds", landscape |-> land, plants |-> pls, stats |-> st]
    ELSE LET x == clip(x0, c.width)
             y == clip(y0, c.height)
         IN  IF land[<<x, y>>].plant = 0
             THEN [res |-> "Ok",
                   landscape |-> [land EXCEPT ![<<x, y>>].plant = Len(pls) + 1],
                   plants |-> Append(pls, plant),
                   stats |-> [st EXCEPT !.plant_count = st.plant_count + 1]]
             ELSE [res |-> "TakenCell", landscape |-> land, plants |-> pls,
                   stats |-> st]

\* add_animal as it would be if it did not count the animal.
add_animal_uncounted(x0, y0, animal, land, ans, st, c) ==
    IF x0 >= c.width \/ y0 >= c.height
    THEN [res |-> "OutOfBounds", landscape |-> land, animals |-> ans, stats |-> st]
    ELSE IF land[<<clip(x0, c.width), clip(y0, c.height)>>].animal = 0
         THEN [res |-> "Ok",
               landscape |-> [land EXCEPT ![<<clip(x0, c.width),
                                               clip(y0, c.height)>>].animal =
                                             Len(ans) + 1],
               animals |-> Append(ans, animal),
               stats |-> st]
         ELSE [res |-> "TakenCell", landscape |-> land, animals |-> ans, stats |-> st]

\* Landscape::add_animal: [res |-> "Ok" | "OutOfBounds" | "TakenCell", ...]
add_animal(x0, y0, animal, land, ans, st, c) ==
    IF x0 >= c.width \/ y0 >= c.height
    THEN [res |-> "OutOfBounds", landscape |-> land, animals |-> ans, stats |-> st]
    ELSE LET x == clip(x0, c.width)
             y == clip(y0, c.height)
         IN  IF land[<<x, y>>].animal = 0
             THEN [res |-> "Ok",
                   landscape |-> [land EXCEPT ![<<x, y>>].animal = Len(ans) + 1],
                   animals |-> Append(ans, animal),
                   stats |-> [st EXCEPT !.animal_count[animal.animal_type] = @ + 1]]
             ELSE [res |-> "TakenCell", landscape |-> land, animals |-> ans,
                   stats |-> st]

-----------------------------------------------------------------------------
(* The worlds main builds: the arguments of Landscape::new and the          *)
(* add_plant / add_animal calls that seed it.                               *)

Half == <<1, 2>>

Config(w, h, mp, mh, mc, grow) ==
    [width |-> w, height |-> h, max_plants |-> mp, max_herbivore |-> mh,
     max_carnivore |-> mc, plant_grow_energy |-> grow, max_steps |-> MaxTicks,
     brain_clone |-> "todo"]

\* A call add_plant(x, y, Plant::new(energy, max_energy, eaten_energy, 1/2, no_repro)).
PlantCall(x, y, energy, max_energy, eaten_energy, no_repro) ==
    [kind |-> "plant", x |-> x, y |-> y, animal_type |-> "Plant",
     energy |-> energy, max_energy |-> max_energy, eaten_energy |-> eaten_energy,
     live_energy |-> 0, no_repro |-> no_repro, directions |-> {}]

\* A call add_animal(x, y, Animal::new(animal_type, energy, max_energy,
\* live_energy, 1/2, 1/2, no_repro, d, 0)) for some d of directions.
AnimalCall(x, y, animal_type, energy, max_energy, live_energy, no_repro, directions) ==
    [kind |-> "animal", x |-> x, y |-> y, animal_type |-> animal_type,
     energy |-> energy, max_energy |-> max_energy, eaten_energy |-> 0,
     live_energy |-> live_energy, no_repro |-> no_repro, directions |-> directions]

\* A herbivore between two plants: one bite smaller, one larger than the
\* plant's energy.
WorldGrazing ==
    [cfg |-> Config(3, 3, 2, 2, 2, 2),
     calls |-> << PlantCall(1, 0, 4, 4, 2, TRUE),
                  PlantCall(0, 1, 2, 4, 4, TRUE),
                  AnimalCall(1, 1, "Herbivore", 4, 8, 2, TRUE, {"North", "West"}) >>]

\* A weak carnivore next to a herbivore.
WorldHunt ==
    [cfg |-> Config(3, 3, 2, 2, 2, 2),
     calls |-> << AnimalCall(1, 1, "Carnivore", 2, 8, 4, TRUE, {"North", "South"}),
                  AnimalCall(1, 0, "Herbivore", 4, 8, 2, TRUE, {"South", "East"}) >>]

\* A sated carnivore next to a fat herbivore, on a plant.
WorldFeast ==
    [cfg |-> Config(3, 3, 2, 2, 2, 2),
     calls |-> << PlantCall(1, 0, 2, 4, 2, TRUE),
                  AnimalCall(1, 1, "Carnivore", 8, 8, 2, TRUE, {"North"}),
                  AnimalCall(1, 0, "Herbivore", 8, 8, 4, TRUE, {"North", "West"}) >>]

\* The herbivores are at their ceiling, the carnivores are not; both are
\* ready to reproduce.
WorldCeiling ==
    [cfg |-> Config(3, 3, 2, 1, 2, 2),
     calls |-> << AnimalCall(0, 0, "Herbivore", 8, 8, 2, FALSE, {"North"}),
                  AnimalCall(2, 2, "Carnivore", 8, 8, 2, FALSE, {"South"}) >>]

\* Only herbivores, at their ceiling and ready to reproduce.
WorldFull ==
    [cfg |-> Config(3, 3, 2, 2, 2, 2),
     calls |-> << AnimalCall(0, 0, "Herbivore", 8, 8, 2, FALSE, {"North"}),
                  AnimalCall(1, 0, "Herbivore", 6, 8, 2, FALSE, {"West"}) >>]

\* Two herbivores in opposite corners, each facing an edge of the grid.
WorldCorners ==
    [cfg |-> Config(3, 3, 2, 2, 2, 2),
     calls |-> << AnimalCall(0, 0, "Herbivore", 4, 8, 2, TRUE, {"North", "West"}),
                  AnimalCall(2, 2, "Herbivore", 4, 8, 2, TRUE, {"South", "East"}) >>]

\* A plant that seeds until the ceiling of plants.
WorldMeadow ==
    [cfg |-> Config(2, 2, 2, 2, 2, 2),
     calls |-> << PlantCall(0, 0, 4, 4, 2, FALSE) >>]

\* Two carnivores side by side, each with the other in its proximity.
WorldPack ==
    [cfg |-> Config(3, 3, 2, 2, 2, 2),
     calls |-> << AnimalCall(1, 1, "Carnivore", 4, 8, 2, TRUE, {"North"}),
                  AnimalCall(1, 0, "Carnivore", 4, 8, 2, TRUE, {"South"}) >>]

\* A lone herbivore that cannot pay for a second action, in a run that is
\* one tick longer than the others.
WorldLastBreath ==
    [cfg |-> [Config(2, 2, 2, 2, 2, 2) EXCEPT !.max_steps = MaxTicks + 1],
     calls |-> << AnimalCall(0, 0, "Herbivore", 2, 8, 2, TRUE, {"North"}) >>]

\* A plant that seeds next to a herbivore: the seed has no energy.
WorldSeedling ==
    [cfg |-> Config(2, 2, 2, 2, 2, 2),
     calls |-> << PlantCall(0, 0, 4, 4, 2, FALSE),
                  AnimalCall(1, 1, "Herbivore", 4, 8, 2, TRUE, {"North", "South"}) >>]

\* The calls that cannot be served on a 2x2 grid with a plant and an animal
\* in (1, 1): a taken cell and a cell outside the grid, for each kind.
BadCalls ==
    {PlantCall(1, 1, 2, 4, 2, TRUE),
     PlantCall(2, 0, 2, 4, 2, TRUE),
     AnimalCall(1, 1, "Carnivore", 4, 8, 2, TRUE, {"South"}),
     AnimalCall(0, 2, "Carnivore", 4, 8, 2, TRUE, {"South"})}

\* A seeding that ends with a call that cannot be served.
WorldBadSeed(call) ==
    [cfg |-> Config(2, 2, 2, 2, 2, 2),
     calls |-> << PlantCall(1, 1, 2, 4, 2, TRUE),
                  AnimalCall(1, 1, "Herbivore", 4, 8, 2, TRUE, {"North"}),
                  call >>]

\* Every plant slot and every animal slot of the grid is taken, and every
\* agent is ready to reproduce; the plants and the herbivores are below
\* their ceilings, the carnivores are at theirs.
WorldCrowded ==
    [cfg |-> Config(2, 2, 5, 3, 2, 2),
     calls |-> << PlantCall(0, 0, 4, 4, 2, FALSE),
                  PlantCall(0, 1, 4, 4, 2, FALSE),
                  PlantCall(1, 0, 4, 4, 2, FALSE),
                  PlantCall(1, 1, 4, 4, 2, FALSE),
                  AnimalCall(0, 0, "Herbivore", 8, 8, 2, FALSE, {"North"}),
                  AnimalCall(0, 1, "Herbivore", 8, 8, 2, FALSE, {"South"}),
                  AnimalCall(1, 0, "Carnivore", 8, 8, 2, FALSE, {"West"}),
                  AnimalCall(1, 1, "Carnivore", 8, 8, 2, FALSE, {"East"}) >>]

Scenarios ==
    {WorldGrazing, WorldHunt, WorldFeast, WorldCeiling, WorldFull, WorldCorners,
     WorldMeadow, WorldPack, WorldLastBreath, WorldSeedling, WorldCrowded}
    \cup {WorldBadSeed(call) : call \in BadCalls}

-----------------------------------------------------------------------------
(* Construction and seeding *)

\* Landscape::new for the world sc, and the calls main is going to make.
WorldInit(sc) ==
    /\ cfg = sc.cfg
    /\ script = sc.calls
    /\ animals = << >>
    /\ plants = << >>
    /\ dead_animals = << >>
    /\ landscape = [c \in Cells(sc.cfg) |-> EmptyCell]
    /\ view_state = << >>
    /\ shuffle_width \in Perms(sc.cfg.width)
    /\ shuffle_height \in Perms(sc.cfg.height)
    /\ stats = InitStats
    /\ pc = "idle"
    /\ cursor = 1
    /\ ticks = 0
    /\ acted = << >>
    /\ tended = << >>
    /\ last = NoLast

\* main before its loop: the channel is created empty, the display thread
\* holds the receiver, the window shows the empty map (map: vec![]).
DisplayInit ==
    /\ channel = << >>
    /\ receiver = "alive"
    /\ map = 0
    /\ main_pc = "tick"
    /\ steps = 0

\* The world after Landscape::new, for each of the worlds.
Init ==
    /\ \E sc \in Scenarios : WorldInit(sc)
    /\ brain = BrainIdle
    /\ DisplayInit

\* The plants that add_plant pushed to Landscape.plants start with no call of
\* Plant::action; t is the tick they were added in (0: seeded by main).
Register(tn, pls, t) ==
    [i \in 1..Len(pls) |-> IF i <= Len(tn) THEN tn[i] ELSE [calls |-> 0, sown |-> t]]

\* main calls add_plant(..).expect(..): an error aborts the program.
AddPlantCall ==
    /\ UNCHANGED <<brain, display>>
    /\ pc = "idle"
    /\ script # << >>
    /\ Head(script).kind = "plant"
    /\ LET call == Head(script)
           r == add_plant(call.x, call.y,
                          PlantNew(call.energy, call.max_energy, call.eaten_energy,
                                   Half, call.no_repro),
                          landscape, plants, stats, cfg)
       IN  /\ landscape' = r.landscape
           /\ plants' = r.plants
           /\ stats' = r.stats
           /\ tended' = Register(tended, r.plants, 0)
           /\ pc' = IF r.res = "Ok" THEN pc ELSE "panic"
           /\ last' = [NoLast EXCEPT !.op = "add_plant", !.x = call.x, !.y = call.y,
                                    !.ok = (r.res = "Ok"), !.res = r.res]
    /\ script' = Tail(script)
    /\ UNCHANGED <<animals, dead_animals, view_state, shuffle_width, shuffle_height,
                   cfg, cursor, ticks, acted>>

\* main calls add_animal(..).expect(..): an error aborts the program.
AddAnimalCall ==
    /\ UNCHANGED <<brain, display>>
    /\ pc = "idle"
    /\ script # << >>
    /\ Head(script).kind = "animal"
    /\ \E d \in Head(script).directions :
        LET call == Head(script)
            r == add_animal(call.x, call.y,
                            AnimalNew(call.animal_type, call.energy, call.max_energy,
                                      call.live_energy, Half, Half, call.no_repro,
                                      d, 0),
                            landscape, animals, stats, cfg)
        IN  /\ landscape' = r.landscape
            /\ animals' = r.animals
            /\ stats' = r.stats
            /\ acted' = [i \in 1..Len(r.animals) |-> 0]
            /\ pc' = IF r.res = "Ok" THEN pc ELSE "panic"
            /\ last' = [NoLast EXCEPT !.op = "add_animal", !.x = call.x, !.y = call.y,
                                     !.ok = (r.res = "Ok"), !.res = r.res]
    /\ script' = Tail(script)
    /\ UNCHANGED <<plants, dead_animals, view_state, shuffle_width, shuffle_height,
                   cfg, cursor, ticks, tended>>

-----------------------------------------------------------------------------
(* Landscape::tick: the shuffle and the sweep *)

\* The cell the sweep is at.
Here == CellAt(shuffle_width, shuffle_height, cursor)

\* The sweep is numbered by arms: arm 2*(i-1) is the plant arm and arm
\* 2*(i-1)+1 the animal arm of the i-th cell of the traversal.  An arm that
\* finds None in its slot does nothing, so a step of the model takes the
\* sweep to the next arm that finds an occupant, or to final_processing.
Occupied(land, sw, sh, p) ==
    IF p % 2 = 0
    THEN land[CellAt(sw, sh, (p \div 2) + 1)].plant # 0
    ELSE land[CellAt(sw, sh, (p \div 2) + 1)].animal # 0

\* The first arm from p on that finds an occupant (the number of arms: none).
RECURSIVE NextArm(_, _, _, _)
NextArm(p, land, sw, sh) ==
    IF p >= 2 * Len(sw) * Len(sh) THEN p
    ELSE IF Occupied(land, sw, sh, p) THEN p
    ELSE NextArm(p + 1, land, sw, sh)

Goto(p0, land, sw, sh) ==
    LET p == NextArm(p0, land, sw, sh)
    IN  IF p >= 2 * Len(sw) * Len(sh)
        THEN pc' = "final" /\ cursor' = Len(sw) * Len(sh)
        ELSE /\ pc' = IF p % 2 = 0 THEN "plant" ELSE "animal"
             /\ cursor' = (p \div 2) + 1

\* The sweep leaves the animal arm of the cell.
Advance(land) == Goto(2 * cursor, land, shuffle_width, shuffle_height)

\* The sweep leaves the plant arm of the cell.
ToAnimalArm(land) == Goto(2 * cursor - 1, land, shuffle_width, shuffle_height)

\* The plant arm of the sweep has called Plant::action of plant p once more.
Tend(p) == [tended EXCEPT ![p].calls = @ + 1]

\* Landscape::tick, the two shuffles that start it.
TickStart ==
    /\ UNCHANGED <<brain, display>>
    /\ pc = "idle"
    /\ script = << >>
    /\ ticks < cfg.max_steps
    /\ shuffle_width' \in Perms(cfg.width)
    /\ shuffle_height' \in Perms(cfg.height)
    /\ Goto(0, landscape, shuffle_width', shuffle_height')
    /\ acted' = [i \in 1..Len(animals) |-> 0]
    /\ tended' = [i \in 1..Len(plants) |-> [tended[i] EXCEPT !.calls = 0]]
    /\ last' = [NoLast EXCEPT !.op = "shuffle"]
    /\ UNCHANGED <<animals, plants, dead_animals, landscape, view_state, cfg, stats,
                   script, ticks>>

\* Landscape::simulate_plant -> inactivity_plant_action
InactivityPlantAction ==
    /\ UNCHANGED <<brain, display>>
    /\ pc = "plant"
    /\ landscape[Here].plant # 0
    /\ PlantAction(plants[landscape[Here].plant]) = "None"
    /\ ToAnimalArm(landscape)
    /\ tended' = Tend(landscape[Here].plant)
    /\ last' = [NoLast EXCEPT !.op = "plant_none", !.x = Here[1], !.y = Here[2]]
    /\ UNCHANGED <<animals, plants, dead_animals, landscape, view_state,
                   shuffle_width, shuffle_height, cfg, stats, script, ticks, acted>>

\* Landscape::simulate_plant -> grow_plant_action
GrowPlantAction ==
    /\ UNCHANGED <<brain, display>>
    /\ pc = "plant"
    /\ landscape[Here].plant # 0
    /\ PlantAction(plants[landscape[Here].plant]) = "Grow"
    /\ plants' = [plants EXCEPT ![landscape[Here].plant] =
                      PlantGrowAction(@, cfg.plant_grow_energy)]
    /\ ToAnimalArm(landscape)
    /\ tended' = Tend(landscape[Here].plant)
    /\ last' = [NoLast EXCEPT !.op = "plant_grow", !.x = Here[1], !.y = Here[2],
                             !.ok = TRUE]
    /\ UNCHANGED <<animals, dead_animals, landscape, view_state, shuffle_width,
                   shuffle_height, cfg, stats, script, ticks, acted>>

\* Landscape::simulate_plant -> reproduce_plant_action
ReproducePlantAction ==
    /\ UNCHANGED <<brain, display>>
    /\ pc = "plant"
    /\ landscape[Here].plant # 0
    /\ PlantAction(plants[landscape[Here].plant]) = "Reproduce"
    /\ LET spot == find_empty_spot("Plant", landscape, stats, cfg, shuffle_width,
                                   shuffle_height)
           r == add_plant(spot.coord[1], spot.coord[2],
                          PlantReproduceAction(plants[landscape[Here].plant]),
                          landscape, plants, stats, cfg)
       IN  IF spot.res = "Ok"
           THEN /\ landscape' = r.landscape
                /\ plants' = r.plants
                /\ stats' = r.stats
                /\ tended' = Register(Tend(landscape[Here].plant), r.plants, ticks + 1)
                /\ last' = [NoLast EXCEPT !.op = "plant_reproduce", !.x = Here[1],
                                         !.y = Here[2], !.tx = spot.coord[1],
                                         !.ty = spot.coord[2], !.ok = TRUE]
           ELSE /\ UNCHANGED <<landscape, plants, stats>>
                /\ tended' = Tend(landscape[Here].plant)
                /\ last' = [NoLast EXCEPT !.op = "plant_reproduce", !.x = Here[1],
                                         !.y = Here[2]]
    /\ ToAnimalArm(landscape')
    /\ UNCHANGED <<animals, dead_animals, view_state, shuffle_width, shuffle_height,
                   cfg, script, ticks, acted>>

\* count_agents_in_area as it would be if it counted every occupant.
RECURSIVE count_agents_in_area_counts_all(_, _, _, _, _, _, _, _)
count_agents_in_area_counts_all(offsets, k, x, y, land, pls, ans, c) ==
    IF k > Len(offsets) THEN <<0, 0, 0>>
    ELSE LET rest == count_agents_in_area_counts_all(offsets, k + 1, x, y, land,
                                                     pls, ans, c)
             cell == land[<<clip(x + offsets[k][1], c.width),
                            clip(y + offsets[k][2], c.height)>>]
             plant == IF cell.plant # 0 THEN 1 ELSE 0
             herbivore ==
                 IF cell.animal # 0 /\ ans[cell.animal].animal_type = "Herbivore"
                 THEN 1 ELSE 0
             carnivore ==
                 IF cell.animal # 0 /\ ans[cell.animal].animal_type = "Carnivore"
                 THEN 1 ELSE 0
         IN  <<rest[1] + plant, rest[2] + herbivore, rest[3] + carnivore>>

\* Landscape::count_agents_in_area, the loop from the k-th offset on:
\* <<plants, herbivores, carnivores>>
RECURSIVE count_agents_in_area(_, _, _, _, _, _, _, _)
count_agents_in_area(offsets, k, x, y, land, pls, ans, c) ==
    IF k > Len(offsets) THEN <<0, 0, 0>>
    ELSE LET rest == count_agents_in_area(offsets, k + 1, x, y, land, pls, ans, c)
             cell == land[<<clip(x + offsets[k][1], c.width),
                            clip(y + offsets[k][2], c.height)>>]
             plant ==
                 IF cell.plant # 0 /\ ~PlantIsEaten(pls[cell.plant]) THEN 1 ELSE 0
             herbivore ==
                 IF /\ cell.animal # 0
                    /\ ~is_dead(ans[cell.animal])
                    /\ ans[cell.animal].animal_type = "Herbivore"
                 THEN 1 ELSE 0
             carnivore ==
                 IF /\ cell.animal # 0
                    /\ ~is_dead(ans[cell.animal])
                    /\ ans[cell.animal].animal_type = "Carnivore"
                 THEN 1 ELSE 0
         IN  <<rest[1] + plant, rest[2] + herbivore, rest[3] + carnivore>>

\* Landscape::percept
percept(direction, x, y, land, pls, ans, c) ==
    LET areas == AreasOf(direction)
        front == count_agents_in_area(areas.front, 1, x, y, land, pls, ans, c)
        left == count_agents_in_area(areas.left, 1, x, y, land, pls, ans, c)
        right == count_agents_in_area(areas.right, 1, x, y, land, pls, ans, c)
        proximity ==
            count_agents_in_area(areas.proximity, 1, x, y, land, pls, ans, c)
    IN  [plant_front |-> front[1], herbivore_front |-> front[2],
         carnivore_front |-> front[3],
         plant_left |-> left[1], herbivore_left |-> left[2],
         carnivore_left |-> left[3],
         plant_right |-> right[1], herbivore_right |-> right[2],
         carnivore_right |-> right[3],
         plant_proximity |-> proximity[1], herbivore_proximity |-> proximity[2],
         carnivore_proximity |-> proximity[3]]

\* The animal the animal arm of the loop body finds (0: none).
Ptr == landscape[Here].animal

\* The animal arm simulates the animal: it is there, not processed, not dead.
Simulated ==
    /\ pc = "animal"
    /\ Ptr # 0
    /\ ~is_processed(animals[Ptr])
    /\ ~is_dead(animals[Ptr])

\* The animal after Animal::action has counted the tick.
Acting == action_effect(animals[Ptr])

\* What a step of simulate_animal records: the inputs percept hands to
\* Animal::action and the action that is resolved.
Did(op, tx, ty, ok, gain) ==
    [op |-> op, actor |-> Ptr, x |-> Here[1], y |-> Here[2], tx |-> tx, ty |-> ty,
     ok |-> ok, gain |-> gain, res |-> "none",
     inputs |-> percept(animals[Ptr].direction, Here[1], Here[2], landscape, plants,
                        animals, cfg)]

\* The animal arm finds no animal or a processed one (continue); a dead
\* animal that is not processed is the panic of Landscape::tick.
AnimalNotSimulated ==
    /\ UNCHANGED <<brain, display>>
    /\ pc = "animal"
    /\ ~(Ptr # 0 /\ ~is_processed(animals[Ptr]) /\ ~is_dead(animals[Ptr]))
    /\ IF ~(Ptr # 0 /\ ~is_processed(animals[Ptr]))
       THEN /\ Advance(landscape)
            /\ last' = [NoLast EXCEPT !.op = "skip", !.actor = Ptr, !.x = Here[1],
                                     !.y = Here[2]]
       ELSE /\ pc' = "panic"
            /\ cursor' = cursor
            /\ last' = [NoLast EXCEPT !.op = "panic_dead", !.actor = Ptr,
                                     !.x = Here[1], !.y = Here[2]]
    /\ UNCHANGED <<animals, plants, dead_animals, landscape, view_state,
                   shuffle_width, shuffle_height, cfg, stats, script, ticks, acted,
                   tended>>

-----------------------------------------------------------------------------
(* Landscape::simulate_animal and the actions it resolves *)

\* The brain decides: Animal::action does not force the reproduction.
BrainDecides == Simulated /\ ~action_forces_reproduce(animals[Ptr])

Count == acted' = [acted EXCEPT ![Ptr] = @ + 1] /\ tended' = tended

\* Landscape::turn_left_animal_action
TurnLeftAnimalAction ==
    /\ UNCHANGED <<brain, display>>
    /\ BrainDecides
    /\ animals' = [animals EXCEPT ![Ptr] = turn_action(Acting, TRUE)]
    /\ Count
    /\ Advance(landscape)
    /\ last' = Did("TurnLeft", Here[1], Here[2], TRUE, 0)
    /\ UNCHANGED <<plants, dead_animals, landscape, view_state, shuffle_width,
                   shuffle_height, cfg, stats, script, ticks>>

\* Landscape::turn_right_animal_action
TurnRightAnimalAction ==
    /\ UNCHANGED <<brain, display>>
    /\ BrainDecides
    /\ animals' = [animals EXCEPT ![Ptr] = turn_action(Acting, FALSE)]
    /\ Count
    /\ Advance(landscape)
    /\ last' = Did("TurnRight", Here[1], Here[2], TRUE, 0)
    /\ UNCHANGED <<plants, dead_animals, landscape, view_state, shuffle_width,
                   shuffle_height, cfg, stats, script, ticks>>

\* Landscape::movement_animal_action, the coordinates of the new cell
move_coords(direction, x, y, c) ==
    CASE direction = "North" -> <<x, clip(y - 1, c.height)>>
      [] direction = "South" -> <<x, clip(y + 1, c.height)>>
      [] direction = "West"  -> <<clip(x - 1, c.width), y>>
      [] direction = "East"  -> <<clip(x + 1, c.width), y>>

\* movement_animal_action as it would be if it did not clear the cell the
\* animal leaves.
MovementAnimalAction_keeps_source ==
    /\ UNCHANGED <<brain, display>>
    /\ BrainDecides
    /\ LET coords == move_coords(Acting.direction, Here[1], Here[2], cfg)
       IN  IF landscape[coords].animal # 0
           THEN /\ animals' = [animals EXCEPT ![Ptr] = move_action(Acting, FALSE)]
                /\ landscape' = landscape
                /\ last' = Did("Move", coords[1], coords[2], FALSE, 0)
           ELSE /\ landscape' = [landscape EXCEPT ![coords].animal = Ptr]
                /\ animals' = [animals EXCEPT ![Ptr] = move_action(Acting, TRUE)]
                /\ last' = Did("Move", coords[1], coords[2], TRUE, 0)
    /\ Count
    /\ Advance(landscape')
    /\ UNCHANGED <<plants, dead_animals, view_state, shuffle_width, shuffle_height,
                   cfg, stats, script, ticks>>

\* Landscape::movement_animal_action
MovementAnimalAction ==
    /\ UNCHANGED <<brain, display>>
    /\ BrainDecides
    /\ LET coords == move_coords(Acting.direction, Here[1], Here[2], cfg)
       IN  IF landscape[coords].animal # 0
           THEN /\ animals' = [animals EXCEPT ![Ptr] = move_action(Acting, FALSE)]
                /\ landscape' = landscape
                /\ last' = Did("Move", coords[1], coords[2], FALSE, 0)
           ELSE /\ landscape' = [landscape EXCEPT ![coords].animal = Ptr,
                                                  ![Here].animal = 0]
                /\ animals' = [animals EXCEPT ![Ptr] = move_action(Acting, TRUE)]
                /\ last' = Did("Move", coords[1], coords[2], TRUE, 0)
    /\ Count
    /\ Advance(landscape')
    /\ UNCHANGED <<plants, dead_animals, view_state, shuffle_width, shuffle_height,
                   cfg, stats, script, ticks>>

\* The cells an offset table covers around (x, y), after clip.
AreaCells(area, x, y, c) ==
    {<<clip(x + area[i][1], c.width), clip(y + area[i][2], c.height)>> :
        i \in 1..Len(area)}

\* Landscape::choose_plant: the cells it can return; the area is scanned in
\* a random order, so every cell of the area with a plant can come first.
choose_plant(x, y, area, land, c) ==
    {t \in AreaCells(area, x, y, c) : land[t].plant # 0}

\* choose_animal as it would be without the check of the animal's type.
choose_animal_any_type(animal_type, x, y, area, land, ans, c) ==
    {t \in AreaCells(area, x, y, c) : land[t].animal # 0}

\* Landscape::choose_animal: the cells it can return.
choose_animal(animal_type, x, y, area, land, ans, c) ==
    {t \in AreaCells(area, x, y, c) :
        land[t].animal # 0 /\ ans[land[t].animal].animal_type = animal_type}

\* Landscape::eating_animal_action
EatingAnimalAction ==
    /\ UNCHANGED <<brain, display>>
    /\ BrainDecides
    /\ LET area == ProximityOf(Acting.direction)
           targets ==
               IF Acting.animal_type = "Herbivore"
               THEN choose_plant(Here[1], Here[2], area, landscape, cfg)
               ELSE choose_animal("Herbivore", Here[1], Here[2], area, landscape,
                                  animals, cfg)
       IN  IF targets = {}
           THEN /\ animals' = [animals EXCEPT ![Ptr] = Acting]
                /\ plants' = plants
                /\ Advance(landscape)
                /\ last' = Did("Eat", Here[1], Here[2], FALSE, 0)
           ELSE \E t \in targets :
                IF Acting.animal_type = "Herbivore"
                THEN LET eaten == PlantBeEaten(plants[landscape[t].plant])
                     IN  /\ plants' = [plants EXCEPT ![landscape[t].plant] = eaten[1]]
                         /\ animals' = [animals EXCEPT ![Ptr] =
                                            eat_action(Acting, eaten[2])]
                         /\ Advance(landscape)
                         /\ last' = Did("Eat", t[1], t[2], TRUE, eaten[2])
                ELSE LET herb == landscape[t].animal
                         eaten == AnimalBeEaten(animals[herb])
                     IN  IF animals[herb].animal_type = "Carnivore"
                         THEN /\ animals' = [animals EXCEPT ![Ptr] = Acting]
                              /\ plants' = plants
                              /\ pc' = "panic"
                              /\ cursor' = cursor
                              /\ last' = Did("panic_carnivore", t[1], t[2], FALSE, 0)
                         ELSE /\ animals' = [animals EXCEPT
                                                ![herb] = eaten[1],
                                                ![Ptr] = eat_action(Acting, eaten[2])]
                              /\ plants' = plants
                              /\ Advance(landscape)
                              /\ last' = Did("Eat", t[1], t[2], TRUE, eaten[2])
    /\ Count
    /\ UNCHANGED <<dead_animals, landscape, view_state, shuffle_width,
                   shuffle_height, cfg, stats, script, ticks>>

\* Landscape::inactivity_animal_action
InactivityAnimalAction ==
    /\ UNCHANGED <<brain, display>>
    /\ BrainDecides
    /\ animals' = [animals EXCEPT ![Ptr] = inactivity_action(Acting)]
    /\ Count
    /\ Advance(landscape)
    /\ last' = Did("None", Here[1], Here[2], TRUE, 0)
    /\ UNCHANGED <<plants, dead_animals, landscape, view_state, shuffle_width,
                   shuffle_height, cfg, stats, script, ticks>>

\* Landscape::reproduce_animal_action
ReproduceAnimalAction ==
    /\ UNCHANGED <<brain, display>>
    /\ Simulated
    /\ action_forces_reproduce(animals[Ptr])
    /\ LET spot == find_empty_spot(Acting.animal_type, landscape, stats, cfg,
                                   shuffle_width, shuffle_height)
           parent == reproduce_action_parent(Acting)
           child == reproduce_action_child(parent)
           r == add_animal(spot.coord[1], spot.coord[2], child, landscape,
                           [animals EXCEPT ![Ptr] = parent], stats, cfg)
           kind == Acting.animal_type
       IN  CASE spot.res = "Err" ->
                  /\ animals' = [animals EXCEPT ![Ptr] = Acting]
                  /\ Count
                  /\ Advance(landscape)
                  /\ last' = Did("Reproduce", Here[1], Here[2], FALSE, 0)
                  /\ UNCHANGED <<landscape, stats>>
             [] spot.res = "Panic" ->
                  /\ animals' = [animals EXCEPT ![Ptr] = Acting]
                  /\ Count
                  /\ pc' = "panic"
                  /\ cursor' = cursor
                  /\ last' = Did("panic_no_room", Here[1], Here[2], FALSE, 0)
                  /\ UNCHANGED <<landscape, stats>>
             [] spot.res = "Ok" /\ clone_with_mutation_panics ->
                  /\ animals' = [animals EXCEPT ![Ptr] = parent]
                  /\ Count
                  /\ pc' = "panic"
                  /\ cursor' = cursor
                  /\ last' = Did("panic_todo", spot.coord[1], spot.coord[2], FALSE, 0)
                  /\ UNCHANGED <<landscape, stats>>
             [] spot.res = "Ok" /\ ~clone_with_mutation_panics ->
                  /\ animals' = r.animals
                  /\ acted' = Append([acted EXCEPT ![Ptr] = @ + 1], 0)
                  /\ tended' = tended
                  /\ landscape' = r.landscape
                  /\ stats' = [r.stats EXCEPT
                        !.animal_reproductions[kind] = @ + 1,
                        !.animal_max_generation[kind] = Max(@, child.generation)]
                  /\ Advance(r.landscape)
                  /\ last' = Did("Reproduce", spot.coord[1], spot.coord[2], TRUE, 0)
    /\ UNCHANGED <<plants, dead_animals, view_state, shuffle_width, shuffle_height,
                   cfg, script, ticks>>

-----------------------------------------------------------------------------
(* Landscape::final_processing *)

\* display::CellStuff in the order of its declaration, the order of derive(Ord).
CellStuff ==
    << "KilledAnimal", "DeadAnimal", "HerbLeft", "HerbRight", "HerbFront",
       "HerbBack", "CarnLeft", "CarnRight", "CarnFront", "CarnBack", "Plant",
       "None" >>

CellStuffOrd(stuff) == CHOOSE i \in 1..Len(CellStuff) : CellStuff[i] = stuff

\* The choice as it would be if the last marker of the sorted list were kept.
last_sorted(tmp_view) ==
    CHOOSE s \in tmp_view : \A t \in tmp_view : CellStuffOrd(s) >= CellStuffOrd(t)

\* tmp_view.sort() followed by tmp_view.first()
first_sorted(tmp_view) ==
    CHOOSE s \in tmp_view : \A t \in tmp_view : CellStuffOrd(s) <= CellStuffOrd(t)

\* The marker final_processing pushes for a live animal.
live_stuff(a) ==
    IF a.animal_type = "Herbivore"
    THEN CASE a.direction = "North" -> "HerbBack"
           [] a.direction = "South" -> "HerbFront"
           [] a.direction = "West"  -> "HerbLeft"
           [] a.direction = "East"  -> "HerbRight"
    ELSE CASE a.direction = "North" -> "CarnBack"
           [] a.direction = "South" -> "CarnFront"
           [] a.direction = "West"  -> "CarnLeft"
           [] a.direction = "East"  -> "CarnRight"

\* send_to_heaven as it would be if it left the animal in its cell.
send_to_heaven_keeps_cell(st, ptr, x, y) ==
    LET t == st.animals[ptr].animal_type
    IN  [st EXCEPT
            !.dead_animals = Append(@, ptr),
            !.stats.animal_count[t] = @ - 1,
            !.stats.animal_deaths[t] = @ + 1]

\* send_to_heaven as it would be if it did not count the death.
send_to_heaven_forgets_death(st, ptr, x, y) ==
    LET t == st.animals[ptr].animal_type
    IN  [st EXCEPT
            !.landscape[<<x, y>>].animal = 0,
            !.dead_animals = Append(@, ptr),
            !.stats.animal_count[t] = @ - 1]

\* send_to_heaven as it would be if it emptied the whole cell.
send_to_heaven_clears_cell(st, ptr, x, y) ==
    LET t == st.animals[ptr].animal_type
    IN  [st EXCEPT
            !.landscape[<<x, y>>] = EmptyCell,
            !.dead_animals = Append(@, ptr),
            !.stats.animal_count[t] = @ - 1,
            !.stats.animal_deaths[t] = @ + 1]

\* Landscape::send_to_heaven, on the record of the fields final_processing changes
send_to_heaven(st, ptr, x, y) ==
    LET a == st.animals[ptr]
        t == a.animal_type
        best == st.stats.best_death_animal[t]
    IN  [st EXCEPT
            !.landscape[<<x, y>>].animal = 0,
            !.dead_animals = Append(@, ptr),
            !.stats.animal_count[t] = @ - 1,
            !.stats.animal_deaths[t] = @ + 1,
            !.stats.best_death_animal[t] =
                IF best # 0 /\ a.age > st.animals[best].age THEN ptr ELSE @]

\* Landscape::update_best_animal
update_best_animal(st, ptr) ==
    LET a == st.animals[ptr]
        t == a.animal_type
        best == st.stats.best_animal[t]
    IN  [st EXCEPT
            !.stats.best_animal[t] =
                IF best # 0 /\ a.age > st.animals[best].age THEN ptr ELSE @]

\* The body of the loops as it would be if every marker of the cell were
\* pushed into the snapshot.
final_cell_every_marker(st, x, y) ==
    LET ptr == st.landscape[<<x, y>>].animal
        dead == ptr # 0 /\ is_dead(st.animals[ptr])
        st1 == IF ptr = 0 THEN st
               ELSE IF dead THEN send_to_heaven(st, ptr, x, y)
               ELSE update_best_animal(
                        [st EXCEPT !.animals[ptr] = clear(@)], ptr)
        tmp_view ==
            (IF st.landscape[<<x, y>>].plant # 0 THEN {"Plant"} ELSE {})
            \cup (IF ptr = 0 THEN {}
                  ELSE IF dead
                  THEN (IF st.animals[ptr].is_eaten THEN {"KilledAnimal"}
                        ELSE {"DeadAnimal"})
                  ELSE {live_stuff(st.animals[ptr])})
        rest == tmp_view \ {first_sorted(tmp_view)}
    IN  IF tmp_view = {} THEN st1
        ELSE IF rest = {}
        THEN [st1 EXCEPT !.view_state = Append(@, <<x, y, first_sorted(tmp_view)>>)]
        ELSE [st1 EXCEPT !.view_state =
                  @ \o << <<x, y, first_sorted(tmp_view)>>,
                          <<x, y, first_sorted(rest)>> >>]

\* The body of the loops of final_processing for the cell (x, y).
final_cell(st, x, y) ==
    LET ptr == st.landscape[<<x, y>>].animal
        dead == ptr # 0 /\ is_dead(st.animals[ptr])
        st1 == IF ptr = 0 THEN st
               ELSE IF dead THEN send_to_heaven(st, ptr, x, y)
               ELSE update_best_animal(
                        [st EXCEPT !.animals[ptr] = clear(@)], ptr)
        tmp_view ==
            (IF st.landscape[<<x, y>>].plant # 0 THEN {"Plant"} ELSE {})
            \cup (IF ptr = 0 THEN {}
                  ELSE IF dead
                  THEN (IF st.animals[ptr].is_eaten THEN {"KilledAnimal"}
                        ELSE {"DeadAnimal"})
                  ELSE {live_stuff(st.animals[ptr])})
    IN  IF tmp_view = {} THEN st1
        ELSE [st1 EXCEPT !.view_state = Append(@, <<x, y, first_sorted(tmp_view)>>)]

\* The loops of final_processing from cell number k on (x outer, y inner).
RECURSIVE final_from(_, _, _)
final_from(st, k, c) ==
    IF k = c.width * c.height THEN st
    ELSE final_from(final_cell(st, k \div c.height, k % c.height), k + 1, c)

\* Landscape::final_processing, which ends the tick.
FinalProcessing ==
    /\ UNCHANGED <<brain, display>>
    /\ pc = "final"
    /\ LET st == final_from([landscape |-> landscape, animals |-> animals,
                             dead_animals |-> dead_animals, stats |-> stats,
                             view_state |-> << >>], 0, cfg)
       IN  /\ landscape' = st.landscape
           /\ animals' = st.animals
           /\ dead_animals' = st.dead_animals
           /\ stats' = st.stats
           /\ view_state' = st.view_state
    /\ pc' = "idle"
    /\ ticks' = ticks + 1
    /\ last' = [NoLast EXCEPT !.op = "final"]
    /\ UNCHANGED <<plants, shuffle_width, shuffle_height, cfg, script, cursor, acted,
                   tended>>

-----------------------------------------------------------------------------

Next ==
    \/ AddPlantCall
    \/ AddAnimalCall
    \/ TickStart
    \/ InactivityPlantAction
    \/ GrowPlantAction
    \/ ReproducePlantAction
    \/ AnimalNotSimulated
    \/ TurnLeftAnimalAction
    \/ TurnRightAnimalAction
    \/ MovementAnimalAction
    \/ EatingAnimalAction
    \/ InactivityAnimalAction
    \/ ReproduceAnimalAction
    \/ FinalProcessing

Spec == Init /\ [][Next]_vars

-----------------------------------------------------------------------------
(* The Landscape with a brain that can be cloned *)

\* A lone herbivore that is ready to reproduce, below its ceiling.
WorldNursery ==
    [cfg |-> Config(2, 2, 2, 3, 2, 2),
     calls |-> << AnimalCall(0, 0, "Herbivore", 8, 8, 2, FALSE, {"North"}) >>]

\* The worlds of ReproSpec: in each of them clone_with_mutation returns.
ReproScenarios ==
    {[sc EXCEPT !.cfg.brain_clone = "mutates"] :
        sc \in {WorldNursery, WorldGrazing, WorldMeadow, WorldCeiling}}

ReproInit ==
    /\ \E sc \in ReproScenarios : WorldInit(sc)
    /\ brain = BrainIdle
    /\ DisplayInit

ReproSpec == ReproInit /\ [][Next]_vars

-----------------------------------------------------------------------------
(* A plant on its own: Plant::action and the three actions it resolves to,  *)
(* once per tick, and the bites of the herbivores around it                 *)

\* Bounds of the plants and of the grow energy.
MaxHalfEnergy == 2
MaxGrow == 3
MaxBites == 2

\* A 1x1 Landscape with one plant in its cell; script holds the bites that
\* the herbivores of the surrounding world have yet to take.
PlantInit ==
    /\ \E grow \in 1..MaxGrow : cfg = Config(1, 1, 1, 0, 0, grow)
    /\ \E h \in 1..MaxHalfEnergy, eaten_energy \in 1..2, no_repro \in BOOLEAN :
          \E energy \in 0..(2 * h) :
             plants = << PlantNew(energy, 2 * h, eaten_energy, Half, no_repro) >>
    /\ script = [i \in 1..MaxBites |-> [kind |-> "bite"]]
    /\ animals = << >>
    /\ dead_animals = << >>
    /\ landscape = [c \in Cells(cfg) |-> [EmptyCell EXCEPT !.plant = 1]]
    /\ view_state = << >>
    /\ shuffle_width = << 0 >>
    /\ shuffle_height = << 0 >>
    /\ stats = [InitStats EXCEPT !.plant_count = 1]
    /\ pc = "plant"
    /\ cursor = 1
    /\ ticks = 0
    /\ acted = << >>
    /\ tended = << [calls |-> 0, sown |-> 0] >>
    /\ last = NoLast
    /\ brain = BrainIdle
    /\ DisplayInit

\* Plant::action returns None: Plant::inactivity_action
PlantRests ==
    /\ PlantAction(plants[1]) = "None"
    /\ last' = [NoLast EXCEPT !.op = "plant_none"]
    /\ UNCHANGED <<animals, plants, dead_animals, landscape, view_state, shuffle_width,
                   shuffle_height, cfg, stats, script, pc, cursor, ticks, acted,
                   tended, brain, display>>

\* Plant::action returns Grow: Plant::grow_action(plant_grow_energy)
PlantGrows ==
    /\ PlantAction(plants[1]) = "Grow"
    /\ plants' = << PlantGrowAction(plants[1], cfg.plant_grow_energy) >>
    /\ last' = [NoLast EXCEPT !.op = "plant_grow", !.ok = TRUE]
    /\ UNCHANGED <<animals, dead_animals, landscape, view_state, shuffle_width,
                   shuffle_height, cfg, stats, script, pc, cursor, ticks, acted,
                   tended, brain, display>>

\* Plant::action returns Reproduce: Plant::reproduce_action hands out a seed
\* and leaves the plant as it is.
PlantSeeds ==
    /\ PlantAction(plants[1]) = "Reproduce"
    /\ last' = [NoLast EXCEPT !.op = "plant_reproduce"]
    /\ UNCHANGED <<animals, plants, dead_animals, landscape, view_state, shuffle_width,
                   shuffle_height, cfg, stats, script, pc, cursor, ticks, acted,
                   tended, brain, display>>

\* A herbivore's Eat resolves on the plant: Plant::be_eaten
PlantBitten ==
    /\ script # << >>
    /\ script' = Tail(script)
    /\ plants' = << PlantBeEaten(plants[1])[1] >>
    /\ last' = [NoLast EXCEPT !.op = "Eat", !.ok = TRUE,
                             !.gain = PlantBeEaten(plants[1])[2]]
    /\ UNCHANGED <<animals, dead_animals, landscape, view_state, shuffle_width,
                   shuffle_height, cfg, stats, pc, cursor, ticks, acted, tended,
                   brain, display>>

\* A tick passes the plant through Plant::action.
PlantTick == PlantRests \/ PlantGrows \/ PlantSeeds

PlantNext == PlantRests \/ PlantGrows \/ PlantSeeds \/ PlantBitten

\* main calls tick again and again in one thread and tick passes every plant
\* of the grid through Plant::action: the plant's next action is taken;
\* nothing makes a herbivore bite.
PlantSpec == PlantInit /\ [][PlantNext]_vars /\ WF_vars(PlantTick)

-----------------------------------------------------------------------------
(* The coordinates of the cells an animal looks at, eats from and moves to: *)
(* Landscape::clip applied to its position plus an offset, on every small   *)
(* grid                                                                     *)

\* Largest width and height of the grids.
MaxSide == 3

\* A Landscape of any width and height from 1 on with one animal in any of
\* its cells, facing any way.
ClipInit ==
    /\ \E w \in 1..MaxSide, h \in 1..MaxSide : cfg = Config(w, h, 1, 1, 1, 1)
    /\ \E d \in Directions :
          animals = << AnimalNew("Herbivore", 4, 8, 2, Half, Half, TRUE, d, 0) >>
    /\ \E c \in Cells(cfg) :
          landscape = [t \in Cells(cfg) |->
                          IF t = c THEN [EmptyCell EXCEPT !.animal = 1] ELSE EmptyCell]
    /\ plants = << >>
    /\ dead_animals = << >>
    /\ view_state = << >>
    /\ shuffle_width = [i \in 1..cfg.width |-> i - 1]
    /\ shuffle_height = [i \in 1..cfg.height |-> i - 1]
    /\ stats = [InitStats EXCEPT !.animal_count["Herbivore"] = 1]
    /\ script = << >>
    /\ pc = "animal"
    /\ cursor = 1
    /\ ticks = 0
    /\ acted = << 0 >>
    /\ tended = << >>
    /\ last = NoLast
    /\ brain = BrainIdle
    /\ DisplayInit

\* The cell of the one animal.
Home == CHOOSE c \in Cells(cfg) : landscape[c].animal = 1

\* What a computation of a cell's coordinates records: the position, the
\* offset's place in its table (gain) and the two results of clip.
Clipped(op, k, offset) ==
    [NoLast EXCEPT !.op = op, !.actor = 1, !.x = Home[1], !.y = Home[2], !.gain = k,
                   !.tx = clip(Home[1] + offset[1], cfg.width),
                   !.ty = clip(Home[2] + offset[2], cfg.height)]

\* Landscape::count_agents_in_area, x_off and y_off of an offset of one of
\* the four tables percept passes on.
ClipPercept ==
    /\ \E area \in {"front", "left", "right", "proximity"} :
          \E k \in 1..Len(AreasOf(animals[1].direction)[area]) :
             last' = Clipped(area, k, AreasOf(animals[1].direction)[area][k])
    /\ UNCHANGED <<animals, plants, dead_animals, landscape, view_state, shuffle_width,
                   shuffle_height, cfg, stats, script, pc, cursor, ticks, acted,
                   tended, brain, display>>

\* Landscape::choose_plant / choose_animal, x_off and y_off of an offset of
\* the proximity table.
ClipChoose ==
    /\ \E k \in 1..Len(ProximityOf(animals[1].direction)) :
          last' = Clipped("choose", k, ProximityOf(animals[1].direction)[k])
    /\ UNCHANGED <<animals, plants, dead_animals, landscape, view_state, shuffle_width,
                   shuffle_height, cfg, stats, script, pc, cursor, ticks, acted,
                   tended, brain, display>>

\* Landscape::movement_animal_action, the coordinates of the new cell.
ClipMove ==
    /\ last' = [NoLast EXCEPT
                   !.op = "move", !.actor = 1, !.x = Home[1], !.y = Home[2],
                   !.tx = move_coords(animals[1].direction, Home[1], Home[2], cfg)[1],
                   !.ty = move_coords(animals[1].direction, Home[1], Home[2], cfg)[2]]
    /\ UNCHANGED <<animals, plants, dead_animals, landscape, view_state, shuffle_width,
                   shuffle_height, cfg, stats, script, pc, cursor, ticks, acted,
                   tended, brain, display>>

ClipNext == ClipPercept \/ ClipChoose \/ ClipMove

ClipSpec == ClipInit /\ [][ClipNext]_vars

-----------------------------------------------------------------------------
(* The decision engine on its own: every score vector and every draw *)

BrainInit ==
    /\ WorldInit(WorldMeadow)
    /\ brain = BrainIdle
    /\ DisplayInit

BrainNext == BrainAction

BrainSpec == BrainInit /\ [][BrainNext]_vars

-----------------------------------------------------------------------------
(* main with a display (world/src/main.rs) and Window::update               *)
(* (display/src/tetra.rs).  A snapshot is named by the number of the        *)
(* iteration that sent it; what a tick does to the world is the             *)
(* specification Spec.                                                      *)

\* Iterations of main's loop (MAX_STEPS in the program, bounded here).
MaxSends == 6

\* world.tick() of an iteration of the loop; after the last iteration
\* main goes on to handler.join().
MainTick ==
    /\ main_pc = "tick"
    /\ main_pc' = IF steps < MaxSends THEN "send" ELSE "join"
    /\ UNCHANGED <<world, brain, channel, receiver, map, steps>>

\* sender.send(world.get_view_state()).expect(..): the channel of
\* std::sync::mpsc::channel() is unbounded, send never blocks and fails
\* only when the receiver is gone, and then expect panics.
MainSend ==
    /\ main_pc = "send"
    /\ IF receiver = "alive"
       THEN /\ channel' = Append(channel, steps + 1)
            /\ steps' = steps + 1
            /\ main_pc' = "tick"
       ELSE /\ main_pc' = "panic"
            /\ UNCHANGED <<channel, steps>>
    /\ UNCHANGED <<world, brain, receiver, map>>

\* handler.join(): main waits for the display thread to end.
MainJoin ==
    /\ main_pc = "join"
    /\ receiver = "dropped"
    /\ main_pc' = "done"
    /\ UNCHANGED <<world, brain, channel, receiver, map, steps>>

\* Window::update: try_recv takes the oldest snapshot of the channel, if
\* there is one, and the window shows it.
WindowUpdate ==
    /\ receiver = "alive"
    /\ channel # << >>
    /\ map' = Head(channel)
    /\ channel' = Tail(channel)
    /\ UNCHANGED <<world, brain, receiver, main_pc, steps>>

\* The display thread ends (the window is closed, or launch_screen fails):
\* the Window and its receiver are dropped, and with them what is queued.
WindowClose ==
    /\ receiver = "alive"
    /\ receiver' = "dropped"
    /\ channel' = << >>
    /\ UNCHANGED <<world, brain, map, main_pc, steps>>

MainInit ==
    /\ WorldInit(WorldMeadow)
    /\ brain = BrainIdle
    /\ DisplayInit

MainNext ==
    \/ MainTick
    \/ MainSend
    \/ MainJoin
    \/ WindowUpdate
    \/ WindowClose

MainSpec == MainInit /\ [][MainNext]_vars

-----------------------------------------------------------------------------
(* Properties *)

AnimalIds == 1..Len(animals)

PlantIds == 1..Len(plants)

\* The program has not panicked: its state can be observed.
Observable == pc # "panic"

C2_ProcessedAtMostOnce ==
    \A i \in 1..Len(acted) : acted[i] <= 1

\* The sweep has reached an animal that acted earlier in this tick (it moved
\* into a cell the sweep had not visited) and has passed it by.
C2_Witness ==
    /\ last.op = "skip"
    /\ last.actor # 0
    /\ acted[last.actor] = 1
    /\ ~is_dead(animals[last.actor])

\* A carnivore's Eat resolves on a herbivore in this step.
CarnivoreEats ==
    /\ last'.op = "Eat"
    /\ last'.ok
    /\ animals[last'.actor].animal_type = "Carnivore"

\* The herbivore the Eat of this step resolves on.
Prey == landscape[<<last'.tx, last'.ty>>].animal

\* C3 (as stated): when a carnivore's Eat resolves on a herbivore the eater's
\* energy increases by exactly eaten_energy_rate x the herbivore's energy,
\* clamped to the eater's max_energy, and the herbivore's energy becomes 0.
C3_EaterGainsShare ==
    [][CarnivoreEats =>
        LET eater == animals[last'.actor]
            herb == animals[Prey]
        IN  /\ herb.animal_type = "Herbivore"
            /\ \E share \in Min(herb.energy, 0)..Max(herb.energy, 0) :
                  /\ herb.eaten_energy_rate[2] * share
                        = herb.eaten_energy_rate[1] * herb.energy
                  /\ animals'[last'.actor].energy
                        = Min(eater.energy + share, eater.max_energy)
            /\ animals'[Prey].energy = 0]_vars

\* C3 (amended): the eater's energy changes by that share less the cost
\* of the Eat action (its live_energy), clamped to its max_energy, and the
\* herbivore's energy becomes 0.
C3_EaterGainsShareLessCost ==
    [][CarnivoreEats =>
        LET eater == animals[last'.actor]
            herb == animals[Prey]
        IN  /\ herb.animal_type = "Herbivore"
            /\ herb.eaten_energy_rate[2] * last'.gain
                  = herb.eaten_energy_rate[1] * herb.energy
            /\ animals'[last'.actor].energy
                  = Min(eater.energy - eater.live_energy + last'.gain,
                        eater.max_energy)
            /\ animals'[Prey].energy = 0]_vars

\* A carnivore has just eaten a herbivore that had energy.
C3_Witness ==
    /\ last.op = "Eat"
    /\ last.ok
    /\ animals[last.actor].animal_type = "Carnivore"
    /\ last.gain > 0
    /\ animals[landscape[<<last.tx, last.ty>>].animal].is_eaten

\* A herbivore's Eat resolves on a plant in this step.
HerbivoreEats ==
    /\ last'.op = "Eat"
    /\ last'.ok
    /\ animals[last'.actor].animal_type = "Herbivore"

\* The plant the Eat of this step resolves on.
Bitten == landscape[<<last'.tx, last'.ty>>].plant

\* C4: Plant::be_eaten releases min(eaten_energy, energy) and leaves the plant
\* with max(0, energy - eaten_energy); the plant's energy never becomes
\* negative.
C4_BiteIsMinOfBiteAndRest ==
    [][HerbivoreEats =>
        LET p == plants[Bitten]
        IN  /\ last'.gain = Min(p.eaten_energy, p.energy)
            /\ plants'[Bitten].energy = Max(0, p.energy - p.eaten_energy)
            /\ plants'[Bitten].energy >= 0]_vars

\* One step in the facing direction on the torus, by modular arithmetic.
StepAhead(direction, x, y) ==
    CASE direction = "North" -> <<x, (y + cfg.height - 1) % cfg.height>>
      [] direction = "South" -> <<x, (y + 1) % cfg.height>>
      [] direction = "West"  -> <<(x + cfg.width - 1) % cfg.width, y>>
      [] direction = "East"  -> <<(x + 1) % cfg.width, y>>

\* An animal's Move resolves in this step.
Moves == last'.op = "Move"

\* The cell the mover of this step stands in, and the cell ahead of it.
MoverCell == <<last'.x, last'.y>>

CellAhead == StepAhead(animals[last'.actor].direction, last'.x, last'.y)

\* C5: when a Move resolves and the cell ahead already holds an animal, the
\* animal slots of both cells are unchanged (as is the rest of the grid)
\* and the mover's energy still decreases by the movement cost.
C5_BlockedMoveStillCosts ==
    [][(Moves /\ landscape[MoverCell].animal = last'.actor
              /\ landscape[CellAhead].animal # 0) =>
        /\ landscape'[MoverCell].animal = landscape[MoverCell].animal
        /\ landscape'[CellAhead].animal = landscape[CellAhead].animal
        /\ landscape' = landscape
        /\ animals'[last'.actor].energy
              = animals[last'.actor].energy - animals[last'.actor].live_energy]_vars

\* A Move has just failed on a cell that holds another animal.
C5_Witness ==
    /\ last.op = "Move"
    /\ ~last.ok
    /\ landscape[<<last.x, last.y>>].animal = last.actor
    /\ landscape[<<last.tx, last.ty>>].animal \notin {0, last.actor}

\* The cell the claim names for a Move of an animal facing d at (x, y).
WrappedAhead(d, x, y) ==
    CASE d = "North" -> <<x, IF y = 0 THEN cfg.height - 1 ELSE y - 1>>
      [] d = "South" -> <<x, IF y = cfg.height - 1 THEN 0 ELSE y + 1>>
      [] d = "West"  -> <<IF x = 0 THEN cfg.width - 1 ELSE x - 1, y>>
      [] d = "East"  -> <<IF x = cfg.width - 1 THEN 0 ELSE x + 1, y>>

\* C6: a Move whose wrapped destination (from coordinate 0 against an axis:
\* size-1 of that axis, from size-1 along the axis: 0, the other coordinate
\* unchanged) holds no animal succeeds and lands the animal on that cell,
\* which is inside the grid, and empties the cell it left.
C6_MoveWrapsAround ==
    [][Moves =>
        LET to == WrappedAhead(animals[last'.actor].direction, last'.x, last'.y)
        IN  /\ to \in Cells(cfg)
            /\ landscape[MoverCell].animal = last'.actor
            /\ landscape[to].animal = 0 =>
                  /\ last'.ok
                  /\ landscape'[to].animal = last'.actor
                  /\ landscape'[MoverCell].animal = 0
                  /\ \A c \in Cells(cfg) \ {to} : landscape'[c].animal # last'.actor]_vars

\* An animal has just moved across an edge of a grid of at least 3 cells
\* on that axis.
C6_Witness ==
    /\ last.op = "Move"
    /\ last.ok
    /\ landscape[<<last.tx, last.ty>>].animal = last.actor
    /\ cfg.width >= 3
    /\ cfg.height >= 3
    /\ \/ last.x = 0 /\ last.tx = cfg.width - 1
       \/ last.x = cfg.width - 1 /\ last.tx = 0
       \/ last.y = 0 /\ last.ty = cfg.height - 1
       \/ last.y = cfg.height - 1 /\ last.ty = 0

\* final_processing runs in this step.
Finalizes == pc = "final" /\ pc' = "idle"

\* The entries of a snapshot for the cell c.
EntriesFor(view, c) == {i \in 1..Len(view) : view[i][1] = c[1] /\ view[i][2] = c[2]}

\* C7: an animal whose energy is <= 0 after an action of the sweep is, by the
\* end of that tick's final_processing, removed from its cell, and the
\* snapshot of the tick holds for that cell the marker DeadAnimal, or
\* KilledAnimal if the animal's is_eaten flag is set.
C7_DeadAnimalLeavesGrid ==
    [][Finalizes =>
        \A c \in Cells(cfg) :
            LET ptr == landscape[c].animal
            IN  (ptr # 0 /\ animals[ptr].energy <= 0) =>
                    /\ landscape'[c].animal = 0
                    /\ \A d \in Cells(cfg) : landscape'[d].animal # ptr
                    /\ Cardinality(EntriesFor(view_state', c)) = 1
                    /\ \A i \in EntriesFor(view_state', c) :
                          view_state'[i][3] = IF animals[ptr].is_eaten
                                              THEN "KilledAnimal"
                                              ELSE "DeadAnimal"]_vars

\* final_processing has just removed an animal that died of its own action
\* and an animal that was eaten, and the snapshot shows both markers.
C7_Witness ==
    /\ last.op = "final"
    /\ \E i \in 1..Len(view_state) : view_state[i][3] = "DeadAnimal"
    /\ \E i \in 1..Len(view_state) : view_state[i][3] = "KilledAnimal"
    /\ \E i \in 1..Len(dead_animals) :
          /\ animals[dead_animals[i]].age > 0
          /\ ~animals[dead_animals[i]].is_eaten
          /\ \A c \in Cells(cfg) : landscape[c].animal # dead_animals[i]

\* The ceiling of a species.
CeilingOf(animal_type) ==
    IF animal_type = "Herbivore" THEN cfg.max_herbivore ELSE cfg.max_carnivore

\* An animal is passed through Animal::action in this step and the action
\* is the forced Reproduce.
AttemptsReproduce ==
    /\ pc = "animal"
    /\ Ptr # 0
    /\ acted'[Ptr] = acted[Ptr] + 1
    /\ action_forces_reproduce(animals[Ptr])

\* The population of the species of the animal at the sweep is at or above
\* its ceiling.
AtCeiling ==
    stats.animal_count[animals[Ptr].animal_type] >= CeilingOf(animals[Ptr].animal_type)

\* An animal slot of the grid is free.
FreeAnimalCell == \E c \in Cells(cfg) : landscape[c].animal = 0

\* C8: once a species' population is at or above its ceiling every Reproduce
\* attempt of that species fails softly (no panic, no child inserted), and
\* no tick raises a population above its ceiling.
C8_CeilingStopsReproduction ==
    [][/\ (AttemptsReproduce /\ AtCeiling) =>
            /\ pc' # "panic"
            /\ Len(animals') = Len(animals)
            /\ landscape' = landscape
            /\ stats'.animal_count = stats.animal_count
       /\ \A t \in AnimalTypes :
            (pc # "idle" /\ stats'.animal_count[t] > stats.animal_count[t]) =>
                stats'.animal_count[t] <= CeilingOf(t)]_vars

\* A Reproduce attempt of a species at its ceiling has just failed softly.
C8_Witness ==
    /\ last.op = "Reproduce"
    /\ ~last.ok
    /\ pc # "panic"
    /\ acted[last.actor] = 1
    /\ stats.animal_count[animals[last.actor].animal_type]
          >= CeilingOf(animals[last.actor].animal_type)

\* C9: a reproduction with the ceiling not reached and a free animal cell
\* completes without a panic and inserts a child with energy = birth_energy,
\* age = 0, generation = parent.generation + 1 and reproduction permitted,
\* while the parent's energy decreases by the reproduction cost plus
\* birth_energy.
C9_ReproductionInsertsChild ==
    [][(AttemptsReproduce /\ ~AtCeiling /\ FreeAnimalCell) =>
        LET parent == animals[Ptr]
            child == animals'[Len(animals')]
        IN  /\ pc' # "panic"
            /\ Len(animals') = Len(animals) + 1
            /\ \E c \in Cells(cfg) :
                  landscape[c].animal = 0 /\ landscape'[c].animal = Len(animals')
            /\ child.energy = parent.birth_energy
            /\ child.age = 0
            /\ child.generation = parent.generation + 1
            /\ ~child.no_repro
            /\ animals'[Ptr].energy
                  = parent.energy - parent.live_energy - parent.birth_energy]_vars

\* C10: when a Reproduce attempt fails because the ceiling of the species is
\* reached, no child is inserted, the grid and all counters are unchanged,
\* and the animal's energy decreases by exactly the reproduction cost.
C10_FailedReproductionCosts ==
    [][(AttemptsReproduce /\ AtCeiling) =>
        /\ Len(animals') = Len(animals)
        /\ landscape' = landscape
        /\ stats' = stats
        /\ animals'[Ptr].energy = animals[Ptr].energy - animals[Ptr].live_energy]_vars

\* The animal i stands in a cell of the grid.
OnGrid(i) == \E c \in Cells(cfg) : landscape[c].animal = i

\* C11 (as stated): in every tick, the first after seeding included, every
\* animal on the grid that has not been eaten has been passed through
\* Animal::action exactly once when the sweep is over.
C11_EveryAnimalActsOnce ==
    pc = "final" =>
        \A i \in AnimalIds :
            (OnGrid(i) /\ ~animals[i].is_eaten) => acted[i] = 1

\* C11 (amended): when the sweep is over every animal on the grid that has
\* not been eaten has been passed through Animal::action exactly once,
\* except in the first tick after the seeding, where it has not been passed
\* through it at all (Animal::new marks the animal processed).
C11_EveryAnimalActsOnceAfterFirstTick ==
    pc = "final" =>
        \A i \in AnimalIds :
            (OnGrid(i) /\ ~animals[i].is_eaten) =>
                acted[i] = IF ticks = 0 THEN 0 ELSE 1

\* The sweep of a later tick is over and two animals have acted in it.
C11_Witness ==
    /\ pc = "final"
    /\ ticks >= 1
    /\ \E i, j \in AnimalIds :
          /\ i # j
          /\ OnGrid(i) /\ ~animals[i].is_eaten /\ acted[i] = 1
          /\ OnGrid(j) /\ ~animals[j].is_eaten /\ acted[j] = 1

\* C12: the panic of Landscape::tick on a dead animal is never reached: an
\* animal the sweep finds not processed is alive, and between the ticks no
\* dead animal stands on the grid.
C12_DeadNeverReachesSweep ==
    /\ last.op # "panic_dead"
    /\ (pc = "animal" /\ Ptr # 0 /\ ~is_processed(animals[Ptr])) =>
            ~is_dead(animals[Ptr])
    /\ pc = "idle" =>
            \A c \in Cells(cfg) :
                landscape[c].animal # 0 => ~is_dead(animals[landscape[c].animal])

\* The sweep has reached the cell of an animal that was eaten before its
\* turn came, and has passed it by.
C12_Witness ==
    /\ last.op = "skip"
    /\ last.actor # 0
    /\ animals[last.actor].is_eaten
    /\ is_dead(animals[last.actor])
    /\ acted[last.actor] = 0

\* C13: the panic of eating_animal_action on a carnivore is never reached:
\* the target a carnivore's Eat resolves is a herbivore, or there is none.
C13_CarnivoreNeverEatsCarnivore ==
    /\ last.op # "panic_carnivore"
    /\ (last.op = "Eat" /\ last.ok
          /\ animals[last.actor].animal_type = "Carnivore") =>
            /\ landscape[<<last.tx, last.ty>>].animal # 0
            /\ animals[landscape[<<last.tx, last.ty>>].animal].animal_type
                  = "Herbivore"

\* A carnivore has just tried to eat with another carnivore, and no
\* herbivore, in its proximity: no target was resolved.
C13_Witness ==
    /\ last.op = "Eat"
    /\ ~last.ok
    /\ animals[last.actor].animal_type = "Carnivore"
    /\ \E t \in AreaCells(ProximityOf(animals[last.actor].direction),
                           last.x, last.y, cfg) :
          /\ landscape[t].animal \notin {0, last.actor}
          /\ animals[landscape[t].animal].animal_type = "Carnivore"

\* C14: the snapshot final_processing builds holds exactly one entry for
\* every cell that held a plant or an animal when it was scanned, none for
\* a cell that held neither, and only coordinates of the grid.
C14_SnapshotOneEntryPerOccupiedCell ==
    [][Finalizes =>
        /\ \A c \in Cells(cfg) :
              Cardinality(EntriesFor(view_state', c)) =
                  IF landscape[c].plant # 0 \/ landscape[c].animal # 0 THEN 1 ELSE 0
        /\ \A i \in 1..Len(view_state') :
              <<view_state'[i][1], view_state'[i][2]>> \in Cells(cfg)]_vars

\* final_processing has just built a snapshot of a grid with a cell that
\* holds a plant and a live animal, and with an empty cell.
C14_Witness ==
    /\ last.op = "final"
    /\ \E c \in Cells(cfg) :
          /\ landscape[c].plant # 0
          /\ landscape[c].animal # 0
          /\ Cardinality(EntriesFor(view_state, c)) = 1
    /\ \E c \in Cells(cfg) :
          /\ landscape[c].plant = 0
          /\ landscape[c].animal = 0
          /\ EntriesFor(view_state, c) = {}

\* The priority the claim gives a marker: plant < killed < dead < live.
ClaimedPriority(stuff) ==
    CASE stuff = "Plant"        -> 0
      [] stuff = "KilledAnimal" -> 1
      [] stuff = "DeadAnimal"   -> 2
      [] OTHER                  -> 3

\* The markers the cell c yields when final_processing scans it.
MarkersOf(c) ==
    LET ptr == landscape[c].animal
    IN  (IF landscape[c].plant # 0 THEN {"Plant"} ELSE {})
        \cup (IF ptr = 0 THEN {}
              ELSE IF animals[ptr].energy > 0 THEN {live_stuff(animals[ptr])}
              ELSE IF animals[ptr].is_eaten THEN {"KilledAnimal"}
              ELSE {"DeadAnimal"})

\* C15: of the markers a cell yields the snapshot keeps the one that is
\* highest in the order plant < killed < dead < live, so a plant marker is
\* kept only for a cell without an animal.
C15_HighestMarkerKept ==
    [][Finalizes =>
        \A i \in 1..Len(view_state') :
            LET c == <<view_state'[i][1], view_state'[i][2]>>
                kept == view_state'[i][3]
            IN  /\ kept \in MarkersOf(c)
                /\ \A m \in MarkersOf(c) : ClaimedPriority(m) <= ClaimedPriority(kept)
                /\ kept = "Plant" => landscape[c].animal = 0]_vars

\* The snapshot just built shows an eaten animal in a cell that also holds
\* a plant.
C15_Witness ==
    /\ last.op = "final"
    /\ \E i \in 1..Len(view_state) :
          /\ view_state[i][3] = "KilledAnimal"
          /\ landscape[<<view_state[i][1], view_state[i][2]>>].plant # 0

\* C16: at no point do two or more snapshots that were sent and not yet
\* received wait in the channel.
C16_AtMostOnePendingSnapshot ==
    Len(channel) <= 1

\* C17: main never aborts on sending a snapshot, whatever the display
\* thread does, its end included.
C17_SendNeverAborts ==
    main_pc # "panic"

\* The sum of the positive scores of the outputs 1..k.
RECURSIVE RunningSum(_, _)
RunningSum(actions, k) ==
    IF k = 0 THEN 0
    ELSE RunningSum(actions, k - 1) + (IF actions[k] > 0 THEN actions[k] ELSE 0)

BrainActions == {"TurnLeft", "TurnRight", "Move", "Eat", "None"}

\* C18: for every score vector and every draw of [0, sum of the positive
\* scores] choose_action returns, without a panic, one of TurnLeft,
\* TurnRight, Move, Eat, None (never Reproduce): None exactly when no score
\* is > 0, otherwise the action of the first positive index whose running
\* sum exceeds the draw.
C18_SelectionIsTotal ==
    brain.out # "idle" =>
        /\ brain.out \in BrainActions
        /\ brain.out = "None" <=> \A k \in 1..OUTPUT_VECTOR_SIZE : brain.actions[k] <= 0
        /\ (\E k \in 1..OUTPUT_VECTOR_SIZE : brain.actions[k] > 0) =>
              \E k \in 1..OUTPUT_VECTOR_SIZE :
                  /\ brain.actions[k] > 0
                  /\ RunningSum(brain.actions, k) > brain.choose
                  /\ \A j \in 1..(k - 1) :
                        brain.actions[j] > 0 =>
                            RunningSum(brain.actions, j) <= brain.choose
                  /\ brain.out = ActionOfIndex(k - 1)

\* C19: an animal that was in the deceased collection before a
\* final_processing (it died a tick ago or earlier) is no longer in it, nor
\* in the animal storage, after that final_processing.
C19_DeceasedDroppedAfterOneTick ==
    [][Finalizes =>
        /\ \A k \in 1..Len(dead_animals) :
              \A j \in 1..Len(dead_animals') : dead_animals'[j] # dead_animals[k]
        /\ Len(animals') = Len(animals) - Len(dead_animals)]_vars

\* The live animals of a species on the grid, and its recorded deaths.
LiveOf(t) ==
    {i \in AnimalIds : OnGrid(i) /\ animals[i].animal_type = t /\ ~is_dead(animals[i])}

DeceasedOf(t) ==
    {dead_animals[k] : k \in {j \in 1..Len(dead_animals) :
                                 animals[dead_animals[j]].animal_type = t}}

\* C20: after every final_processing, for each species with a live animal
\* on the grid best_animal is set and points to a live animal of the
\* species of maximal age, and for each species with a recorded death
\* best_death_animal is set and points to a deceased animal of maximal age.
C20_LongestLivedTracked ==
    last.op = "final" =>
        \A t \in AnimalTypes :
            /\ LiveOf(t) # {} =>
                  /\ stats.best_animal[t] \in LiveOf(t)
                  /\ \A i \in LiveOf(t) :
                        animals[i].age <= animals[stats.best_animal[t]].age
            /\ stats.animal_deaths[t] > 0 =>
                  /\ stats.best_death_animal[t] \in DeceasedOf(t)
                  /\ \A i \in DeceasedOf(t) :
                        animals[i].age <= animals[stats.best_death_animal[t]].age

-----------------------------------------------------------------------------
(* Statistics *)

\* The children of species t a step of the sweep inserts into the storage.
ChildrenInserted(t) ==
    IF pc = "animal"
    THEN {i \in (Len(animals) + 1)..Len(animals') : animals'[i].animal_type = t}
    ELSE {}

\* The animals of species t final_processing takes out of their cells.
RemovedAtFinalize(t) ==
    IF pc = "final"
    THEN {c \in Cells(cfg) :
            /\ landscape[c].animal # 0
            /\ landscape'[c].animal = 0
            /\ animals[landscape[c].animal].animal_type = t}
    ELSE {}

ObserverVariants ==
    {[stats EXCEPT !.animal_reproductions[t] = @ + 1] : t \in AnimalTypes}
    \cup {[stats EXCEPT !.animal_deaths[t] = @ + 1] : t \in AnimalTypes}
    \cup {[stats EXCEPT !.animal_max_generation[t] = @ + 1] : t \in AnimalTypes}
    \cup {[stats EXCEPT !.best_animal[t] = i] : t \in AnimalTypes, i \in AnimalIds}
    \cup {[stats EXCEPT !.best_death_animal[t] = i] :
             t \in AnimalTypes, i \in AnimalIds}

\* The statistics of a second run that differ in one population counter.
PopulationVariants ==
    {[stats EXCEPT !.plant_count = @ + 1]}
    \cup {[stats EXCEPT !.animal_count[t] = @ + 1] : t \in AnimalTypes}

\* What the pending step of the tick does to the grid and to the agents if
\* the statistics are st: the steps that read the statistics are the two
\* reproductions (find_empty_spot) and final_processing.
OutcomeWith(st) ==
    CASE pc = "plant" /\ PlantAction(plants[landscape[Here].plant]) = "Reproduce" ->
            LET spot == find_empty_spot("Plant", landscape, st, cfg, shuffle_width,
                                        shuffle_height)
                r == add_plant(spot.coord[1], spot.coord[2],
                               PlantReproduceAction(plants[landscape[Here].plant]),
                               landscape, plants, st, cfg)
            IN  IF spot.res = "Ok" THEN <<r.landscape, r.plants>>
                ELSE <<landscape, plants>>
      [] Simulated /\ action_forces_reproduce(animals[Ptr]) ->
            LET spot == find_empty_spot(animals[Ptr].animal_type, landscape, st, cfg,
                                        shuffle_width, shuffle_height)
            IN  <<spot.res, spot.coord>>
      [] pc = "final" ->
            LET end == final_from([landscape |-> landscape, animals |-> animals,
                                   dead_animals |-> dead_animals, stats |-> st,
                                   view_state |-> << >>], 0, cfg)
            IN  <<end.landscape, end.animals, end.dead_animals, end.view_state>>
      [] OTHER -> << >>

\* C22 as stated: whatever counter or reference of the statistics a second
\* run differs in, the pending step leaves the same grid and agents.
C22_StatisticsArePureObservers ==
    \A st \in ObserverVariants \cup PopulationVariants :
        OutcomeWith(st) = OutcomeWith(stats)

\* C22: a second run whose statistics differ in the counters of
\* reproductions, deaths, maximum generation or in the longest-lived
\* references, the population counters being equal, leaves the same grid and
\* agents after the pending step.
C22_ObserversExceptPopulation ==
    \A st \in ObserverVariants : OutcomeWith(st) = OutcomeWith(stats)

\* An animal is about to reproduce, find_empty_spot reads the statistics and
\* finds the species below its ceiling.
C22_Witness ==
    /\ Simulated
    /\ action_forces_reproduce(animals[Ptr])
    /\ ObserverVariants # {}
    /\ find_empty_spot(animals[Ptr].animal_type, landscape, stats, cfg,
                       shuffle_width, shuffle_height).res = "Ok"

-----------------------------------------------------------------------------
(* Plants *)

\* C23: in every step a plant slot that holds a plant keeps holding the same
\* plant, the plant storage only grows, and a step in which a plant is eaten
\* changes nothing of the plant but its energy, which leaves it eaten.
C23_PlantsNeverRemoved ==
    [][/\ \A c \in Cells(cfg) :
             landscape[c].plant # 0 => landscape'[c].plant = landscape[c].plant
       /\ \A i \in PlantIds :
             /\ i <= Len(plants')
             /\ [plants'[i] EXCEPT !.energy = plants[i].energy] = plants[i]
             /\ (HerbivoreEats /\ plants'[i] # plants[i]) => PlantIsEaten(plants'[i])
      ]_vars

\* A herbivore has just eaten a plant down to nothing and the plant is
\* still in its slot.
C23_Witness ==
    /\ last.op = "Eat"
    /\ last.ok
    /\ animals[last.actor].animal_type = "Herbivore"
    /\ landscape[<<last.tx, last.ty>>].plant # 0
    /\ PlantIsEaten(plants[landscape[<<last.tx, last.ty>>].plant])

-----------------------------------------------------------------------------
(* Insertion of agents *)

\* The step is a call of add_plant or add_animal.
AddCall == last'.op \in {"add_plant", "add_animal"}

\* The call names a cell outside the grid.
CallOutside == last'.x >= cfg.width \/ last'.y >= cfg.height

\* The call names a cell of the grid whose slot for the kind is taken.
CallTaken ==
    /\ ~CallOutside
    /\ IF last'.op = "add_plant"
       THEN landscape[<<last'.x, last'.y>>].plant # 0
       ELSE landscape[<<last'.x, last'.y>>].animal # 0

\* C24: a call of add_plant or add_animal for a cell outside the grid
\* returns OutOfBounds, a call for a cell whose slot is taken returns
\* TakenCell, and both leave the grid, the two storages and the statistics
\* as they were.
C24_FailedInsertionChangesNothing ==
    [][AddCall =>
        /\ CallOutside => last'.res = "OutOfBounds"
        /\ CallTaken => last'.res = "TakenCell"
        /\ (CallOutside \/ CallTaken) =>
              UNCHANGED <<landscape, plants, animals, stats>>]_vars

\* add_plant has refused a taken cell of a seeded world.
C24_Witness ==
    /\ last.op = "add_plant"
    /\ last.res = "TakenCell"
    /\ Len(plants) = 1
    /\ Len(animals) = 1

-----------------------------------------------------------------------------
(* Reproduction that finds no room *)

\* The plant arm of the sweep resolves a Reproduce in this step.
PlantAttemptsReproduce ==
    /\ pc = "plant"
    /\ PlantAction(plants[landscape[Here].plant]) = "Reproduce"

\* A plant slot of the grid is free.
FreePlantCell == \E c \in Cells(cfg) : landscape[c].plant = 0

\* The step adds no agent.
NoAgentAdded ==
    /\ Len(plants') = Len(plants)
    /\ Len(animals') = Len(animals)
    /\ landscape' = landscape

\* C25 as stated: a Reproduce of a plant or of an animal that meets the
\* ceiling or finds no empty cell of its category leaves the tick running
\* and adds no agent.
C25_NoRoomIsSoftFailure ==
    [][/\ (PlantAttemptsReproduce
             /\ (stats.plant_count >= cfg.max_plants \/ ~FreePlantCell)) =>
            (pc' # "panic" /\ NoAgentAdded)
       /\ (AttemptsReproduce /\ (AtCeiling \/ ~FreeAnimalCell)) =>
            (pc' # "panic" /\ NoAgentAdded)]_vars

\* C25: a Reproduce of a plant that meets the ceiling or finds no empty
\* plant cell, and a Reproduce of an animal that meets the ceiling, leave
\* the tick running and add no agent; a Reproduce of an animal below its
\* ceiling that finds every animal cell taken aborts the tick, and adds no
\* agent either.
C25_NoRoomIsSoftExceptFullOfAnimals ==
    [][/\ (PlantAttemptsReproduce
             /\ (stats.plant_count >= cfg.max_plants \/ ~FreePlantCell)) =>
            (pc' # "panic" /\ NoAgentAdded)
       /\ (AttemptsReproduce /\ AtCeiling) =>
            (pc' # "panic" /\ NoAgentAdded)
       /\ (AttemptsReproduce /\ ~AtCeiling /\ ~FreeAnimalCell) =>
            (pc' = "panic" /\ NoAgentAdded)]_vars

\* A plant below its ceiling has tried to seed a grid whose plant cells are
\* all taken, and the sweep goes on.
C25_Witness ==
    /\ last.op = "plant_reproduce"
    /\ ~last.ok
    /\ stats.plant_count < cfg.max_plants
    /\ \A c \in Cells(cfg) : landscape[c].plant # 0
    /\ pc # "panic"

-----------------------------------------------------------------------------
(* The targets of Eat *)

\* The animal at the sweep resolves an Eat in this step.
EatsNow == pc = "animal" /\ last'.op = "Eat"

\* The cells of the proximity set of the eating animal that hold something
\* edible for it: a plant that is not eaten, a herbivore that is not dead.
EdibleCells ==
    {t \in AreaCells(ProximityOf(animals[Ptr].direction), Here[1], Here[2], cfg) :
        IF animals[Ptr].animal_type = "Herbivore"
        THEN /\ landscape[t].plant # 0
             /\ ~PlantIsEaten(plants[landscape[t].plant])
        ELSE /\ landscape[t].animal # 0
             /\ animals[landscape[t].animal].animal_type = "Herbivore"
             /\ ~is_dead(animals[landscape[t].animal])}

\* C26: an Eat that finds a target finds it among the edible cells of the
\* proximity set (a plant that is not eaten, a herbivore that is not dead),
\* and an Eat with no edible cell in the proximity set misses and gains
\* nothing.
C26_EatTargetsOnlyEdible ==
    [][EatsNow =>
        /\ last'.ok => <<last'.tx, last'.ty>> \in EdibleCells
        /\ EdibleCells = {} =>
              /\ ~last'.ok
              /\ animals'[Ptr].energy <= animals[Ptr].energy]_vars

-----------------------------------------------------------------------------
(* Perception *)

\* The point reflection of an offset table.
Reflected(table) == [i \in 1..Len(table) |-> <<0 - table[i][1], 0 - table[i][2]>>]

\* The set of the offsets of a table.
OffsetsOf(table) == {table[i] : i \in 1..Len(table)}

\* The direction opposite to a direction.
Opposite(direction) ==
    CASE direction = "North" -> "South"
      [] direction = "South" -> "North"
      [] direction = "West"  -> "East"
      [] direction = "East"  -> "West"

\* C27: the tables percept uses for an animal that faces South hold the
\* point reflections of the offsets of the North tables, and those for an
\* animal that faces East the point reflections of the West tables, for
\* each of front, left, right and proximity.
C27_SouthEastAreReflections ==
    \A i \in AnimalIds :
        animals[i].direction \in {"South", "East"} =>
            \A area \in {"front", "left", "right", "proximity"} :
                OffsetsOf(AreasOf(animals[i].direction)[area])
                    = OffsetsOf(Reflected(
                          AreasOf(Opposite(animals[i].direction))[area]))

\* The direction an animal faces, as an offset.
Forward(direction) ==
    CASE direction = "North" -> <<0, 0 - 1>>
      [] direction = "South" -> <<0, 1>>
      [] direction = "West"  -> <<0 - 1, 0>>
      [] direction = "East"  -> <<1, 0>>

\* The adjacent cells ahead of or beside an animal that faces direction.
AheadOrBeside(direction) ==
    {o \in ((0 - 1)..1) \X ((0 - 1)..1) :
        /\ o # <<0, 0>>
        /\ o[1] * Forward(direction)[1] + o[2] * Forward(direction)[2] >= 0}

\* C28: whatever way an animal faces, the offsets of its proximity table
\* are pairwise distinct, each is adjacent to the animal, and together they
\* are the adjacent cells ahead of and beside the animal.
C28_ProximityDistinctAdjacentCovering ==
    \A a \in AnimalIds :
        LET d == animals[a].direction
            table == ProximityOf(d)
        IN  /\ \A i, j \in 1..Len(table) : i # j => table[i] # table[j]
            /\ \A i \in 1..Len(table) :
                  /\ table[i][1] \in (0 - 1)..1
                  /\ table[i][2] \in (0 - 1)..1
                  /\ table[i] # <<0, 0>>
            /\ AheadOrBeside(d) \subseteq OffsetsOf(table)

\* The step passes the animal at the sweep through percept and
\* Animal::action.
Perceives == pc = "animal" /\ Ptr # 0 /\ acted'[Ptr] = acted[Ptr] + 1

\* The offsets of a table whose cell, after the wraparound, holds a plant
\* that is not eaten.
PlantsSeen(table) ==
    {i \in 1..Len(table) :
        LET cell == landscape[<<clip(Here[1] + table[i][1], cfg.width),
                                clip(Here[2] + table[i][2], cfg.height)>>]
        IN  cell.plant # 0 /\ plants[cell.plant].energy > 0}

\* The offsets of a table whose cell, after the wraparound, holds an animal
\* of species t that is not dead.
AnimalsSeen(table, t) ==
    {i \in 1..Len(table) :
        LET cell == landscape[<<clip(Here[1] + table[i][1], cfg.width),
                                clip(Here[2] + table[i][2], cfg.height)>>]
        IN  /\ cell.animal # 0
            /\ animals[cell.animal].animal_type = t
            /\ animals[cell.animal].energy > 0}

\* C29: each of the 12 counts percept hands to Animal::action is the number
\* of offsets of its area whose cell, after the wraparound, holds an
\* occupant of its kind with energy > 0.
C29_CountsExcludeEatenAndDead ==
    [][Perceives =>
        LET areas == AreasOf(animals[Ptr].direction)
            inputs == last'.inputs
        IN  /\ inputs.plant_front = Cardinality(PlantsSeen(areas.front))
            /\ inputs.plant_left = Cardinality(PlantsSeen(areas.left))
            /\ inputs.plant_right = Cardinality(PlantsSeen(areas.right))
            /\ inputs.plant_proximity = Cardinality(PlantsSeen(areas.proximity))
            /\ inputs.herbivore_front
                  = Cardinality(AnimalsSeen(areas.front, "Herbivore"))
            /\ inputs.herbivore_left
                  = Cardinality(AnimalsSeen(areas.left, "Herbivore"))
            /\ inputs.herbivore_right
                  = Cardinality(AnimalsSeen(areas.right, "Herbivore"))
            /\ inputs.herbivore_proximity
                  = Cardinality(AnimalsSeen(areas.proximity, "Herbivore"))
            /\ inputs.carnivore_front
                  = Cardinality(AnimalsSeen(areas.front, "Carnivore"))
            /\ inputs.carnivore_left
                  = Cardinality(AnimalsSeen(areas.left, "Carnivore"))
            /\ inputs.carnivore_right
                  = Cardinality(AnimalsSeen(areas.right, "Carnivore"))
            /\ inputs.carnivore_proximity
                  = Cardinality(AnimalsSeen(areas.proximity, "Carnivore"))]_vars

\* An animal that did nothing has been handed a count of plants in its
\* proximity that leaves out an eaten plant of that area.
C29_Witness ==
    /\ last.op = "None"
    /\ pc # "panic"
    /\ last.inputs.plant_proximity > 0
    /\ \E i \in 1..Len(ProximityOf(animals[last.actor].direction)) :
          LET o == ProximityOf(animals[last.actor].direction)[i]
              cell == landscape[<<clip(last.x + o[1], cfg.width),
                                  clip(last.y + o[2], cfg.height)>>]
          IN  cell.plant # 0 /\ PlantIsEaten(plants[cell.plant])

-----------------------------------------------------------------------------
(* The action-intent method *)

\* Reproduction is not forbidden and energy > reproduce_energy_rate x
\* max_energy, the rate being the fraction <<numerator, denominator>>.
ReadyToReproduce(a) ==
    /\ ~a.no_repro
    /\ a.energy * a.reproduce_energy_rate[2] > a.reproduce_energy_rate[1] * a.max_energy

\* The records of a step that resolves a Reproduce.
ReproduceOps == {"Reproduce", "panic_no_room", "panic_todo"}

\* C31: every call of Animal::action adds 1 to the age and sets processed;
\* the action that is resolved is Reproduce exactly if reproduction is not
\* forbidden and energy > reproduce_energy_rate x max_energy, and otherwise
\* it is one of the choices of the brain.
C31_ActionIntent ==
    [][Perceives =>
        /\ animals'[Ptr].age = animals[Ptr].age + 1
        /\ animals'[Ptr].processed
        /\ (last'.op \in ReproduceOps) <=> ReadyToReproduce(animals[Ptr])
        /\ (last'.op \notin ReproduceOps) =>
              last'.op \in {"TurnLeft", "TurnRight", "Move", "Eat", "None",
                            "panic_carnivore"}]_vars

\* An animal above its reproduction threshold whose reproduction is
\* forbidden has moved on the choice of its brain.
C31_Witness ==
    /\ last.op = "Move"
    /\ animals[last.actor].no_repro
    /\ animals[last.actor].age > 0
    /\ animals[last.actor].processed
    /\ animals[last.actor].energy * animals[last.actor].reproduce_energy_rate[2]
          > animals[last.actor].reproduce_energy_rate[1]
              * animals[last.actor].max_energy

-----------------------------------------------------------------------------
(* Turns *)

\* The facings in clockwise order, and the position of a facing in it.
Clockwise == <<"North", "East", "South", "West">>

ClockPos(direction) == CHOOSE k \in 1..4 : Clockwise[k] = direction

\* The facing a quarter turn clockwise (right) of a facing.
QuarterRight(direction) == Clockwise[(ClockPos(direction) % 4) + 1]

\* The step resolves a turn of the animal at the sweep.
Turns == pc = "animal" /\ last'.op \in {"TurnLeft", "TurnRight"}

\* C32: a right turn takes the facing a quarter turn clockwise and a left
\* turn a quarter turn counter-clockwise (so a left turn after a right
\* turn, or the reverse, and four turns the same way restore the facing,
\* and no turn keeps it); a turn leaves the grid as it is and takes the
\* turn cost from the animal's energy.
C32_TurnsAreQuarterRotations ==
    [][Turns =>
        LET before == animals[Ptr].direction
            after == animals'[Ptr].direction
        IN  /\ after # before
            /\ last'.op = "TurnRight" => after = QuarterRight(before)
            /\ last'.op = "TurnLeft" => QuarterRight(after) = before
            /\ QuarterRight(QuarterRight(QuarterRight(QuarterRight(after)))) = after
            /\ landscape' = landscape
            /\ animals'[Ptr].energy =
                  animals[Ptr].energy
                    - RateMul(TURN_ACTION_ENERGY_RATE, animals[Ptr].live_energy)
      ]_vars

\* An animal that faced South has turned left and faces East.
C32_Witness ==
    /\ last.op = "TurnLeft"
    /\ animals[last.actor].direction = "East"
    /\ animals[last.actor].age = 1
    /\ animals[last.actor].energy < animals[last.actor].birth_energy

-----------------------------------------------------------------------------
(* Newborns *)

\* C33: no animal is passed through Animal::action in the tick it was born
\* in.
C33_NewbornWaitsForNextTick ==
    [][Perceives => animals[Ptr].born # ticks + 1]_vars

-----------------------------------------------------------------------------
(* C34: a tick processes every cell, and every plant, exactly once *)

\* The position of cell c in the traversal order of the two shuffles.
PositionsOf(c) ==
    {i \in 1..(cfg.width * cfg.height) : CellAt(shuffle_width, shuffle_height, i) = c}

\* The cell that holds plant p.
CellOfPlant(p) == CHOOSE c \in Cells(cfg) : landscape[c].plant = p

\* The plant arm of the sweep is past cell c.
PlantArmPassed(c) ==
    \/ pc = "final"
    \/ /\ pc \in {"plant", "animal"}
       /\ \E i \in PositionsOf(c) : i < cursor \/ (i = cursor /\ pc = "animal")

-----------------------------------------------------------------------------
(* C35: an eaten plant grows back *)

\* The lone plant is at its full energy or above its reproduction threshold.
Ripe ==
    \/ plants[1].energy >= plants[1].max_energy
    \/ /\ ~plants[1].no_repro
       /\ plants[1].energy >
             RateMul(plants[1].reproduce_energy_rate, plants[1].max_energy)

\* C35: the grow energy being positive, a plant without energy that is not
\* bitten again (the bites yet to come stay n) gets positive energy and
\* becomes ripe: it reaches max_energy or its reproduction threshold.
C35_EatenPlantRegrows ==
    \A n \in 0..MaxBites :
       /\ (PlantIsEaten(plants[1]) /\ Len(script) = n)
             ~> (plants[1].energy > 0 \/ Len(script) < n)
       /\ (PlantIsEaten(plants[1]) /\ Len(script) = n)
             ~> (Ripe \/ Len(script) < n)

\* A plant that was bitten and had no energy left has just grown, in one
\* step, above its reproduction threshold without reaching its full energy.
C35_Witness ==
    /\ last.op = "plant_grow"
    /\ Len(script) < MaxBites
    /\ plants[1].energy = cfg.plant_grow_energy
    /\ plants[1].energy < plants[1].max_energy
    /\ Ripe

-----------------------------------------------------------------------------
(* C36: occupancy *)

\* The cells whose animal slot refers to animal i.
CellsOf(i) == {c \in Cells(cfg) : landscape[c].animal = i}

\* The animals that final_processing has removed from the grid.
Removed == {dead_animals[k] : k \in 1..Len(dead_animals)}

\* Every animal slot is empty or refers to one animal of the storage, an
\* animal that was added and has not been removed is referred to by exactly
\* one cell, and a removed animal by none.
OccupancyConsistent ==
    /\ \A c \in Cells(cfg) : landscape[c].animal \in 0..Len(animals)
    /\ \A i \in 1..Len(animals) :
          Cardinality(CellsOf(i)) = IF i \in Removed THEN 0 ELSE 1

\* C36: after every step the occupancy is consistent, and a Move that
\* succeeds puts the reference to the animal into the destination, which was
\* free, clears the slot it came from and touches no other slot; a Move that
\* fails leaves the grid as it is.
C36_OccupancyConsistent ==
    [][/\ OccupancyConsistent'
       /\ (pc = "animal" /\ last'.op = "Move") =>
             LET from == Here
                 to == <<last'.tx, last'.ty>>
             IN  IF last'.ok
                 THEN /\ to # from
                      /\ landscape[to].animal = 0
                      /\ landscape'[to].animal = Ptr
                      /\ landscape'[from].animal = 0
                      /\ \A c \in Cells(cfg) \ {from, to} :
                            landscape'[c] = landscape[c]
                      /\ landscape'[to].plant = landscape[to].plant
                      /\ landscape'[from].plant = landscape[from].plant
                 ELSE landscape' = landscape
      ]_vars

\* An animal has just moved into a free cell while another animal is on the
\* grid.
C36_Witness ==
    /\ last.op = "Move"
    /\ last.ok
    /\ landscape[<<last.tx, last.ty>>].animal = last.actor
    /\ landscape[<<last.x, last.y>>].animal = 0
    /\ \E i \in 1..Len(animals) : i # last.actor /\ CellsOf(i) # {}

-----------------------------------------------------------------------------
(* C37: the population counters *)

\* The cells whose animal slot holds an animal of species t.
CellsWith(t) ==
    {c \in Cells(cfg) :
        IF landscape[c].animal = 0 THEN FALSE
        ELSE animals[landscape[c].animal].animal_type = t}

\* C37: for each species the population counter is the number of cells whose
\* animal slot holds an animal of the species, dead animals that
\* final_processing has not removed yet included, and it is never negative.
C37_CounterMatchesCells ==
    \A t \in AnimalTypes :
       /\ stats.animal_count[t] = Cardinality(CellsWith(t))
       /\ stats.animal_count[t] >= 0

\* A herbivore that a carnivore has killed in this sweep is still in its
\* cell and still counted.
C37_Witness ==
    \E i \in 1..Len(animals) :
       /\ is_dead(animals[i])
       /\ animals[i].animal_type = "Herbivore"
       /\ CellsOf(i) # {}
       /\ stats.animal_count["Herbivore"] = 1
       /\ stats.animal_count["Carnivore"] = 1

-----------------------------------------------------------------------------
(* C38: perception and movement *)

\* The cell the animal in cell c would enter by a Move, as
\* movement_animal_action computes it.
MoveCell(c, direction) == move_coords(direction, c[1], c[2], cfg)

\* C38: whatever way an animal on the grid faces, every offset of its front
\* table lies on the side a Move displaces it to (North: dy < 0, South:
\* dy > 0, West: dx < 0, East: dx > 0), its proximity table holds the offset
\* of the cell ahead, and the cells of its proximity area include the cell a
\* Move would enter.
C38_PerceptionAgreesWithMovement ==
    \A a \in AnimalIds :
       \A c \in CellsOf(a) :
          LET d == animals[a].direction
              front == AreasOf(d).front
          IN  /\ \A i \in 1..Len(front) :
                    front[i][1] * Forward(d)[1] + front[i][2] * Forward(d)[2] > 0
              /\ Forward(d) \in OffsetsOf(ProximityOf(d))
              /\ MoveCell(c, d) \in AreaCells(ProximityOf(d), c[1], c[2], cfg)

-----------------------------------------------------------------------------
(* C39: the wrapped coordinates *)

\* A pair of coordinates has been computed for the animal.
ClipDone == last.op \in {"front", "left", "right", "proximity", "choose", "move"}

\* C39: on every grid with width >= 1 and height >= 1, for every position of
\* the animal and every offset that perception, the choice of a target and
\* the movement use, the two coordinates clip returns lie in 0..width-1 and
\* 0..height-1, and the cell they name is not the animal's own cell.
C39_WrappedCellInRangeNotOwn ==
    ClipDone =>
       /\ last.tx \in 0..(cfg.width - 1)
       /\ last.ty \in 0..(cfg.height - 1)
       /\ <<last.tx, last.ty>> # <<last.x, last.y>>

-----------------------------------------------------------------------------
(* C40: the cost of a turn *)

\* The step is the turn of the animal at the sweep, the program goes on,
\* and the animal has not eaten in it.
TurnWithoutMeal ==
    /\ Perceives
    /\ pc' # "panic"
    /\ ~(last'.op = "Eat" /\ last'.ok)

\* C40: in every turn in which an animal does not eat, whatever action is
\* resolved and whether or not it is realized, the animal's energy goes down
\* by at least its homeostasis cost (live_energy).
C40_EveryTurnCosts ==
    [][TurnWithoutMeal =>
          animals'[Ptr].energy
             <= animals[Ptr].energy
                   - RateMul(NONE_ACTION_ENERGY_RATE, animals[Ptr].live_energy)]_vars

=============================================================================
